---- MODULE Spec2Model ----
(***************************************************************************)
(* A model of the media segmentation, localization and upload pipeline of  *)
(* MulmoCast-Slides:                                                       *)
(*   - calculateSegments   (src/src/convert/movie_bundle.ts)               *)
(*   - translateText / textToSpeech / generateMovieBundle (same file)      *)
(*   - convertMovie, run once and a second time over the same directories  *)
(*                          (same file)                                    *)
(*   - uploadWithConcurrencyLimit / uploadFileToR2 / uploadBundleDir       *)
(*                          (src/src/actions/upload.ts)                    *)
(*                                                                         *)
(* Times are kept in half-seconds ("ticks"): every input is a whole number *)
(* of seconds, the only division of the code is the midpoint               *)
(* (s.start + s.end) / 2, so every value the code computes is a whole      *)
(* number of ticks and integer arithmetic agrees with the code's floats.   *)
(***************************************************************************)
EXTENDS Integers, Sequences, FiniteSets, TLC

VARIABLES
    \* ---- calculateSegments ----
    totalDuration,   \* parameter totalDuration (ticks)
    silences,        \* parameter silences: sequence of [start, end] (ticks)
    minDuration,     \* parameter minDuration (ticks)
    maxDuration,     \* parameter maxDuration (ticks)
    segPc,           \* position in calculateSegments
    currentStart,    \* local currentStart
    segmentIndex,    \* local segmentIndex
    segments,        \* local segments / the returned list
    \* ---- uploadBundleDir / uploadWithConcurrencyLimit / uploadFileToR2 ----
    upPc,            \* position in uploadBundleDir
    upOutcome,       \* how uploadBundleDir ended: "none", "success", "throw"
    upError,         \* which throw statement ended it
    signs,           \* data.signs.length of the POST /me/uploads response
    uploadPath,      \* data.uploadPath, as its "/"-separated components
    index,           \* uploadWithConcurrencyLimit: the shared index
    results,         \* uploadWithConcurrencyLimit: results (file i of the code is i+1 here)
    workers,         \* per created worker: the file it holds (currentIndex + 1), 0 once it returned
    fileSt,          \* per file: where its uploadFileToR2 call stands
    failCount,       \* uploadBundleDir: failCount, -1 before it is computed
    signPosts,       \* number of POST /me/uploads requests issued
    completePosts,   \* the contentIds POSTed to /me/uploads/{contentId}/complete
    mediaKeySet,     \* process.env.MULMO_MEDIA_API_KEY is set
    \* ---- generateMovieBundle / translateText / textToSpeech ----
    bPc,             \* position in generateMovieBundle
    apiKeySet,       \* process.env.OPENAI_API_KEY is set
    beats,           \* options.beats: the text of each beat (beat i of the code is i+1 here)
    sourceLang,      \* options.sourceLang
    targetLangs,     \* options.targetLangs
    scriptsDir,      \* the files of options.scriptsDir
    outDir,          \* the files of options.outputDir: name -> content
    viewFile,        \* outputDir/mulmo_view.json
    bi,              \* the beat being processed (i + 1)
    lj,              \* position of targetLang in targetLangs
    attempt,         \* translateText / textToSpeech: attempt
    translatedText,  \* generateMovieBundle: translatedText
    audioSources,    \* generateMovieBundle: audioSources of the current beat
    multiLinguals,   \* generateMovieBundle: multiLinguals of the current beat
    bundleBeats,     \* generateMovieBundle: bundleBeats
    translateCalls,  \* text-completion calls made by the current translateText request
    exhausted,       \* the (beat, language) pairs whose translation failed 3 times in this run
    abortReason,     \* what generateMovieBundle threw, "none" if nothing
    beatTimes,       \* options.beats: startTime, endTime, duration of each beat (ticks)
    optTotalDuration,\* options.totalDuration (ticks)
    outDir0,         \* the files of options.outputDir when generateMovieBundle was called
    viewFile0,       \* outputDir/mulmo_view.json when generateMovieBundle was called
    calls,           \* the service calls of this run: <<beat, language, "translate" or "tts">>
    ttsExhausted,    \* the (beat, language) pairs whose synthesis failed 3 times in this run
    \* ---- convertMovie ----
    mPc,             \* position in convertMovie
    run,             \* "first" or "second" run over the same directories
    videoExists,     \* fs.existsSync(videoPath)
    optBundle,       \* options.bundle ?? true
    optTargetLangs,  \* options.targetLangs ?? ["ja"]
    mk,              \* position of segment in segments
    mBeats,          \* convertMovie: the text of each pushed beat (= transcriptions)
    scriptFile,      \* scriptsDir/mulmo_script.json
    toolCalls,       \* the media-tool and transcription calls of this run: <<segment, kind>>
    written,         \* the files of scriptsDir the media tools wrote in this run
    scriptsDir0,     \* the files of scriptsDir when this run started
    startView,       \* mulmo_view.json when this run started
    startScript,     \* mulmo_script.json when this run started
    mFail,           \* what convertMovie threw, "none" if nothing
    prev,            \* how the previous run over these directories ended
    \* ---- resolveLang ----
    langCall,        \* one call of resolveLang: its inputs, MULMO_LANG and its result
    \* ---- runAction ----
    actPc,           \* position in runAction
    action,          \* "movie" or "bundle"
    force,           \* options.force
    inputExists,     \* fs.existsSync(inputFile)
    fileType,        \* what detectFileType makes of the extension
    scriptExists,    \* scripts/<basename>/mulmo_script.json is on disk
    outputDirExists, \* output/<basename> is on disk
    converterCalls,  \* calls of convertToMulmoScript
    runnerCalls,     \* calls of the action runner, in order
    actError,        \* why the command ended in an error, "none" otherwise
    scriptExists0,   \* scriptExists when the command started
    \* ---- two generateMovieBundle invocations on one bundle directory ----
    runMode,         \* "single", or how two invocations are scheduled
    activeRun,       \* the invocation whose locals the bundle variables hold
    otherRun,        \* the locals of the other invocation
    recorded         \* the (beat, langKey) saveAudio has stored

segVars == <<totalDuration, silences, minDuration, maxDuration,
             segPc, currentStart, segmentIndex, segments>>

upVars == <<upPc, upOutcome, upError, signs, uploadPath, index, results, workers,
            fileSt, failCount, signPosts, completePosts, mediaKeySet>>

bunVars == <<bPc, apiKeySet, beats, sourceLang, targetLangs, scriptsDir, outDir,
             viewFile, bi, lj, attempt, translatedText, audioSources, multiLinguals,
             bundleBeats, translateCalls, exhausted, abortReason,
             beatTimes, optTotalDuration, outDir0, viewFile0, calls, ttsExhausted>>

movVars == <<mPc, run, videoExists, optBundle, optTargetLangs, mk, mBeats, scriptFile,
             toolCalls, written, scriptsDir0, startView, startScript, mFail, prev>>

langVars == <<langCall>>

actVars ==
    <<actPc, action, force, inputExists, fileType, scriptExists, outputDirExists,
      converterCalls, runnerCalls, actError, scriptExists0>>

runVars == <<runMode, activeRun, otherRun, recorded>>

vars == <<segVars, upVars, bunVars, movVars, langVars, actVars, runVars>>

----------------------------------------------------------------------------
(* Helpers *)

Sec(n) == 2 * n

Abs(x) == IF x < 0 THEN -x ELSE x

Min2(a, b) == IF a < b THEN a ELSE b

RECURSIVE SeqsUpTo(_, _)
SeqsUpTo(S, n) ==
    IF n = 0 THEN {<<>>}
    ELSE LET shorter == SeqsUpTo(S, n - 1)
         IN shorter \cup {Append(q, x) : q \in shorter, x \in S}

----------------------------------------------------------------------------
(* calculateSegments *)

\* the search window reaches 30 seconds past the target end
SilenceSlack == 30

\* the fixed window of the fallback segmentation, in seconds
FixedDuration == 60

\* at most this many silence intervals in an input
MaxSilences == 2

\* total durations tried, in seconds (0: ffprobe reports an empty stream)
Durations == {0, 50, 150, 200}

\* --min-segment values tried, in seconds (130 exceeds every maximum tried)
MinDurations == {0, 20, 130}

\* --max-segment values tried, in seconds
MaxDurations == {40, 120}

\* silence intervals tried, in seconds; a video of duration D only has the
\* ones that end by D
SilencePool ==
    { <<15, 25>>, <<30, 50>>, <<60, 61>>, <<60, 70>>,
      <<105, 115>>, <<125, 135>>, <<140, 149>>, <<145, 155>> }

SilenceIntervals(D) ==
    { [start |-> Sec(p[1]), end |-> Sec(p[2])] : p \in {q \in SilencePool : q[2] <= D} }

Segment(idx, startT, endT) ==
    [index |-> idx, startTime |-> startT, endTime |-> endT, duration |-> endT - startT]

\* silences.map((s) => (s.start + s.end) / 2)
SplitPoints(sil) == [i \in 1..Len(sil) |-> (sil[i].start + sil[i].end) \div 2]

InWindowNoSlack(point, cs, targetEnd, minD) ==
    point > cs + minD /\ point < targetEnd

InWindowWideSlack(point, cs, targetEnd, minD) ==
    point > cs + minD /\ point < targetEnd + Sec(2 * SilenceSlack)

\* point > currentStart + minDuration && point < targetEnd + 30
InWindow(point, cs, targetEnd, minD) ==
    point > cs + minD /\ point < targetEnd + Sec(SilenceSlack)

IsCloserLast(distance, acc) == TRUE

\* distance < minDistance, minDistance starting at Infinity
IsCloser(distance, acc) == acc.unset \/ distance < acc.minDistance

\* the for loop over splitPoints, in list order
RECURSIVE ScanSplitPoints(_, _, _, _, _, _)
ScanSplitPoints(points, i, cs, targetEnd, minD, acc) ==
    IF i > Len(points) THEN acc.bestSplit
    ELSE LET point == points[i]
             distance == Abs(point - targetEnd)
             take == InWindow(point, cs, targetEnd, minD) /\ IsCloser(distance, acc)
         IN ScanSplitPoints(points, i + 1, cs, targetEnd, minD,
                IF take
                THEN [unset |-> FALSE, minDistance |-> distance, bestSplit |-> point]
                ELSE acc)

BestSplitAtStart(points, cs, targetEnd, minD) == cs

\* let bestSplit = targetEnd; let minDistance = Infinity; for (...) {...}
BestSplit(points, cs, targetEnd, minD) ==
    ScanSplitPoints(points, 1, cs, targetEnd, minD,
                    [unset |-> TRUE, minDistance |-> 0, bestSplit |-> targetEnd])

\* the fixed segmentation taken when the main loop produced no segment
RECURSIVE FixedSegmentation(_, _, _, _)
FixedSegmentation(D, start, idx, acc) ==
    IF start < D
    THEN LET end == Min2(start + Sec(FixedDuration), D)
         IN FixedSegmentation(D, end, idx + 1, Append(acc, Segment(idx, start, end)))
    ELSE acc

\* calculateSegments is not running
SegmentsIdle ==
    /\ totalDuration = 0
    /\ silences = <<>>
    /\ minDuration = 0
    /\ maxDuration = 0
    /\ segPc = "idle"
    /\ currentStart = 0
    /\ segmentIndex = 1
    /\ segments = <<>>

\* generateMovieBundle is not running
BundleIdle ==
    /\ bPc = "idle"
    /\ apiKeySet = FALSE
    /\ beats = <<>>
    /\ sourceLang = "en"
    /\ targetLangs = <<>>
    /\ scriptsDir = {}
    /\ outDir = <<>>
    /\ viewFile = [present |-> FALSE]
    /\ bi = 1
    /\ lj = 1
    /\ attempt = 0
    /\ translatedText = ""
    /\ audioSources = <<>>
    /\ multiLinguals = <<>>
    /\ bundleBeats = <<>>
    /\ translateCalls = 0
    /\ exhausted = {}
    /\ abortReason = "none"
    /\ beatTimes = <<>>
    /\ optTotalDuration = 0
    /\ outDir0 = <<>>
    /\ viewFile0 = [present |-> FALSE]
    /\ calls = {}
    /\ ttsExhausted = {}

\* convertMovie is not running
MovieIdle ==
    /\ mPc = "idle"
    /\ run = "first"
    /\ videoExists = FALSE
    /\ optBundle = FALSE
    /\ optTargetLangs = <<>>
    /\ mk = 1
    /\ mBeats = <<>>
    /\ scriptFile = [present |-> FALSE]
    /\ toolCalls = {}
    /\ written = {}
    /\ scriptsDir0 = {}
    /\ startView = [present |-> FALSE]
    /\ startScript = [present |-> FALSE]
    /\ mFail = "none"
    /\ prev = [completed |-> FALSE, view |-> [present |-> FALSE]]

\* resolveLang is not being called on its own
LangIdle == langCall = [pc |-> "idle"]

\* no movie or bundle command is running
ActionIdle ==
    /\ actPc = "idle"
    /\ action = "none"
    /\ force = FALSE
    /\ inputExists = FALSE
    /\ fileType = "none"
    /\ scriptExists = FALSE
    /\ outputDirExists = FALSE
    /\ converterCalls = 0
    /\ runnerCalls = <<>>
    /\ actError = "none"
    /\ scriptExists0 = FALSE

\* generateMovieBundle is not invoked twice
RunsIdle ==
    /\ runMode = "single"
    /\ activeRun = 1
    /\ otherRun = [pc |-> "none"]
    /\ recorded = {}

\* no upload is running
UploadIdle ==
    /\ upPc = "idle"
    /\ upOutcome = "none"
    /\ upError = "none"
    /\ signs = 0
    /\ uploadPath = <<>>
    /\ index = 0
    /\ results = <<>>
    /\ workers = <<>>
    /\ fileSt = <<>>
    /\ failCount = -1
    /\ signPosts = 0
    /\ completePosts = <<>>
    /\ mediaKeySet = FALSE

InitSegments ==
    /\ RunsIdle
    /\ ActionIdle
    /\ LangIdle
    /\ UploadIdle
    /\ BundleIdle
    /\ MovieIdle
    /\ totalDuration \in {Sec(d) : d \in Durations}
    /\ minDuration \in {Sec(d) : d \in MinDurations}
    /\ maxDuration \in {Sec(d) : d \in MaxDurations}
    /\ silences \in SeqsUpTo(SilenceIntervals(totalDuration \div 2), MaxSilences)
    /\ segPc = "loop"
    /\ currentStart = 0
    /\ segmentIndex = 1
    /\ segments = <<>>

SegLastSegmentAtTarget ==
    /\ segPc = "loop"
    /\ currentStart < totalDuration
    /\ currentStart + maxDuration >= totalDuration
    /\ segments' = Append(segments,
                     Segment(segmentIndex, currentStart, currentStart + maxDuration))
    /\ segPc' = "check"
    /\ UNCHANGED <<totalDuration, silences, minDuration, maxDuration,
                   currentStart, segmentIndex>>
    /\ UNCHANGED <<upVars, bunVars, movVars, langVars, actVars, runVars>>

\* while (currentStart < totalDuration) with targetEnd >= totalDuration:
\* push the last segment and break
SegLastSegment ==
    /\ segPc = "loop"
    /\ currentStart < totalDuration
    /\ currentStart + maxDuration >= totalDuration
    /\ segments' = Append(segments, Segment(segmentIndex, currentStart, totalDuration))
    /\ segPc' = "check"
    /\ UNCHANGED <<totalDuration, silences, minDuration, maxDuration,
                   currentStart, segmentIndex>>
    /\ UNCHANGED <<upVars, bunVars, movVars, langVars, actVars, runVars>>

\* one iteration with targetEnd < totalDuration: cut at bestSplit
SegSplit ==
    /\ segPc = "loop"
    /\ currentStart < totalDuration
    /\ currentStart + maxDuration < totalDuration
    /\ LET targetEnd == currentStart + maxDuration
           bestSplit == BestSplit(SplitPoints(silences), currentStart, targetEnd,
                                  minDuration)
       IN /\ segments' = Append(segments, Segment(segmentIndex, currentStart, bestSplit))
          /\ currentStart' = bestSplit
          /\ segmentIndex' = segmentIndex + 1
    /\ UNCHANGED <<totalDuration, silences, minDuration, maxDuration, segPc>>
    /\ UNCHANGED <<upVars, bunVars, movVars, langVars, actVars, runVars>>

\* the loop condition currentStart < totalDuration is false
SegLoopExit ==
    /\ segPc = "loop"
    /\ ~(currentStart < totalDuration)
    /\ segPc' = "check"
    /\ UNCHANGED <<totalDuration, silences, minDuration, maxDuration,
                   currentStart, segmentIndex, segments>>
    /\ UNCHANGED <<upVars, bunVars, movVars, langVars, actVars, runVars>>

\* if (segments.length === 0) { fixed segmentation }  return segments
SegReturn ==
    /\ segPc = "check"
    /\ segments' = IF Len(segments) = 0
                   THEN FixedSegmentation(totalDuration, 0, 1, <<>>)
                   ELSE segments
    /\ segPc' = "done"
    /\ UNCHANGED <<totalDuration, silences, minDuration, maxDuration,
                   currentStart, segmentIndex>>
    /\ UNCHANGED <<upVars, bunVars, movVars, langVars, actVars, runVars>>

NextSegments == SegLastSegment \/ SegSplit \/ SegLoopExit \/ SegReturn

SpecSegments == InitSegments /\ [][NextSegments]_vars

\* calculateSegments is synchronous code: once called it runs on, one
\* statement after the other, as long as a statement is left
SpecSegmentsRun == SpecSegments /\ WF_vars(NextSegments)

\* the while loop of calculateSegments from currentStart = cs on, as a function
RECURSIVE MainLoop(_, _, _, _, _, _, _)
MainLoop(D, points, minD, maxD, cs, idx, acc) ==
    IF ~(cs < D) THEN acc
    ELSE IF cs + maxD >= D THEN Append(acc, Segment(idx, cs, D))
    ELSE LET bestSplit == BestSplit(points, cs, cs + maxD, minD)
         IN MainLoop(D, points, minD, maxD, bestSplit, idx + 1,
                     Append(acc, Segment(idx, cs, bestSplit)))

\* calculateSegments(totalDuration, silences, minDuration, maxDuration)
CalculateSegments(D, sil, minD, maxD) ==
    LET main == MainLoop(D, SplitPoints(sil), minD, maxD, 0, 1, <<>>)
    IN IF Len(main) = 0 THEN FixedSegmentation(D, 0, 1, <<>>) ELSE main

----------------------------------------------------------------------------
(* Properties of calculateSegments *)

Returned == segPc = "done"

\* the midpoints of the silence intervals, as a set
Midpoints == { (silences[i].start + silences[i].end) \div 2 : i \in 1..Len(silences) }

WindowOf(cs) ==
    { m \in Midpoints : m > cs + minDuration /\ m < cs + maxDuration + Sec(30) }

ScenarioA ==
    /\ totalDuration = Sec(150)
    /\ silences = << [start |-> Sec(60), end |-> Sec(61)] >>
    /\ minDuration = Sec(20)
    /\ maxDuration = Sec(120)

\* C2: every segment whose target end (start + maxDuration) is below D ends
\* at a silence midpoint of its window (start + minDuration, target end + 30 s)
\* that is as close to the target end as any midpoint of the window, and
\* exactly at the target end when the window holds no midpoint; D = 150 with
\* the one silence {60, 61}, min 20 and max 120 returns exactly [0, 60.5) and
\* [60.5, 150).
C2_CutAtClosestMidpoint ==
    /\ \A k \in 1..Len(segments) :
         LET cs == segments[k].startTime
             targetEnd == cs + maxDuration
             cut == segments[k].endTime
         IN (totalDuration > 0 /\ targetEnd < totalDuration) =>
                IF WindowOf(cs) = {}
                THEN cut = targetEnd
                ELSE /\ cut \in WindowOf(cs)
                     /\ \A w \in WindowOf(cs) :
                            Abs(cut - targetEnd) <= Abs(w - targetEnd)
    /\ (ScenarioA /\ Returned) =>
          segments = << Segment(1, 0, 121), Segment(2, 121, Sec(150)) >>

\* Scenario A has returned
C2_Witness == ScenarioA /\ Returned /\ Len(segments) = 2

\* C3: with 0 <= minDuration <= maxDuration every returned segment except
\* possibly the last lasts at least minDuration and at most
\* maxDuration + 30 seconds.
C3_DurationBounds ==
    (Returned /\ totalDuration > 0 /\ 0 <= minDuration /\ minDuration <= maxDuration) =>
        \A k \in 1..(Len(segments) - 1) :
            /\ segments[k].duration >= minDuration
            /\ segments[k].duration <= maxDuration + Sec(30)

\* a returned list in which a segment other than the last one is longer than
\* maxDuration (cut in the 30 s past the target end) and another is shorter
C3_Witness ==
    /\ Returned
    /\ 0 < minDuration /\ minDuration <= maxDuration
    /\ \E k \in 1..(Len(segments) - 1) : segments[k].duration > maxDuration
    /\ \E k \in 1..(Len(segments) - 1) : segments[k].duration < maxDuration

\* C4: with no silence interval and D > 0 the returned list is the fixed
\* 60-second segmentation: segment k covers [60(k-1), min(60k, D)), whatever
\* minDuration and maxDuration are.
C4_FixedWindowsWithoutSilence ==
    (Returned /\ totalDuration > 0 /\ silences = <<>>) =>
        /\ Len(segments) = (totalDuration + Sec(60) - 1) \div Sec(60)
        /\ \A k \in 1..Len(segments) :
               /\ segments[k].startTime = Sec(60) * (k - 1)
               /\ segments[k].endTime = Min2(Sec(60) * k, totalDuration)

----------------------------------------------------------------------------
(* uploadBundleDir, uploadWithConcurrencyLimit, uploadFileToR2 *)

MAX_RETRIES == 3

MAX_CONCURRENT_UPLOADS == 5

\* the size of one uploadBundleDir invocation: the number of signed files in
\* the answer to POST /me/uploads plus the number of failures met (missing
\* files, PUTs that do not come back OK) is at most this
MaxLoad == 7

\* the failures an invocation with n signed files may still meet
MaxFaults(n) == MaxLoad - n

\* data.uploadPath values tried: with a last component and ending in "/"
UploadPaths == { <<"uploads", "c1">>, <<"uploads", "">> }

\* what a PUT can come back with: 2xx, a non-OK status below 500, a status
\* of 500 or more, or a rejected fetch
PutResponses == {"ok", "client", "server", "network"}

\* data.uploadPath.split("/").pop()
ContentId(path) == IF Len(path) = 0 THEN "" ELSE path[Len(path)]

WorkerCountPerFile(concurrency, n) == n

\* Array.from({ length: Math.min(concurrency, items.length) }, ...)
WorkerCount(concurrency, n) == Min2(concurrency, n)

ShouldRetryAnyFailure(response, made) ==
    response # "ok" /\ made < MAX_RETRIES

\* response.status >= 500 && attempt < MAX_RETRIES, and in the catch block
\* attempt < MAX_RETRIES
ShouldRetry(response, made) ==
    response \in {"server", "network"} /\ made < MAX_RETRIES

\* uploadFileToR2 up to its first await: a missing file returns false at
\* once, otherwise the first PUT is issued
StartUpload(exists) ==
    IF exists THEN [phase |-> "put", attempt |-> 1, log |-> <<>>]
    ELSE [phase |-> "missing", attempt |-> 0, log |-> <<>>]

\* uploadFileToR2 returned
FileDone(st) == [phase |-> "done", attempt |-> st.attempt, log |-> st.log]

\* the response to the PUT in flight is received
Received(st, response) ==
    [phase |-> st.phase, attempt |-> st.attempt, log |-> Append(st.log, response)]

RECURSIVE SumOver(_, _)
SumOver(F, S) ==
    IF S = {} THEN 0
    ELSE LET x == CHOOSE y \in S : TRUE IN F[x] + SumOver(F, S \ {x})

\* the failures one file has met so far: its file was missing, or PUTs came
\* back other than OK
FaultsOf(st) ==
    IF st.phase \in {"missing", "done"} /\ st.attempt = 0 THEN 1
    ELSE Cardinality({ k \in 1..Len(st.log) : st.log[k] # "ok" })

FaultsIn(fs) == SumOver([f \in 1..Len(fs) |-> FaultsOf(fs[f])], 1..Len(fs))

InFlight == { f \in 1..Len(fileSt) : fileSt[f].phase \in {"put", "sleep", "missing"} }

WorkerOf(f) == CHOOSE w \in 1..Len(workers) : workers[w] = f

AnyWorkerReturned == \E w \in 1..Len(workers) : workers[w] = 0

\* await Promise.all(workers)
AllWorkersReturned == \A w \in 1..Len(workers) : workers[w] = 0

\* results.filter((success) => !success).length
FailCountOf(res) == Cardinality({ i \in 1..Len(res) : res[i] = "false" })

UploadFailedNever(fc) == FALSE

\* if (failCount > 0) throw
UploadFailed(fc) == fc > 0

InitUpload ==
    /\ RunsIdle
    /\ ActionIdle
    /\ LangIdle
    /\ SegmentsIdle
    /\ BundleIdle
    /\ MovieIdle
    /\ upPc = "start"
    /\ upOutcome = "none"
    /\ upError = "none"
    /\ signs = 0
    /\ uploadPath = <<>>
    /\ index = 0
    /\ results = <<>>
    /\ workers = <<>>
    /\ fileSt = <<>>
    /\ failCount = -1
    /\ signPosts = 0
    /\ completePosts = <<>>
    /\ mediaKeySet \in BOOLEAN

\* throw new Error(...) out of uploadBundleDir
Throw(error) ==
    /\ upPc' = "done"
    /\ upOutcome' = "throw"
    /\ upError' = error

\* lines 152-165: extract the contentId and POST .../complete
RequestCompletion(path) ==
    IF ContentId(path) = ""
    THEN Throw("contentId") /\ UNCHANGED completePosts
    ELSE /\ completePosts' = Append(completePosts, ContentId(path))
         /\ upPc' = "completing"
         /\ UNCHANGED <<upOutcome, upError>>

\* runUpload: MULMO_MEDIA_API_KEY is not set, the command exits
UpNoApiKey ==
    /\ upPc = "start"
    /\ ~mediaKeySet
    /\ Throw("apiKey")
    /\ UNCHANGED <<signs, uploadPath, index, results, workers, fileSt, failCount,
                   signPosts, completePosts>>
    /\ UNCHANGED <<segVars, bunVars, movVars, mediaKeySet, langVars, actVars, runVars>>

\* mulmo_view.json is not in the bundle directory
UpManifestMissing ==
    /\ upPc = "start"
    /\ mediaKeySet
    /\ Throw("manifest")
    /\ UNCHANGED <<signs, uploadPath, index, results, workers, fileSt, failCount,
                   signPosts, completePosts>>
    /\ UNCHANGED <<segVars, bunVars, movVars, mediaKeySet, langVars, actVars, runVars>>

\* mulmo_view.json is read and POSTed to /me/uploads
UpRequestSigns ==
    /\ upPc = "start"
    /\ mediaKeySet
    /\ upPc' = "signing"
    /\ signPosts' = signPosts + 1
    /\ UNCHANGED <<upOutcome, upError, signs, uploadPath, index, results, workers,
                   fileSt, failCount, completePosts>>
    /\ UNCHANGED <<segVars, bunVars, movVars, mediaKeySet, langVars, actVars, runVars>>

\* the POST is rejected or answers with a non-OK status
UpSignRejected ==
    /\ upPc = "signing"
    /\ Throw("sign")
    /\ UNCHANGED <<signs, uploadPath, index, results, workers, fileSt, failCount,
                   signPosts, completePosts>>
    /\ UNCHANGED <<segVars, bunVars, movVars, mediaKeySet, langVars, actVars, runVars>>

\* the POST answers with n signed files: with none, go on to the completion
\* call; otherwise uploadWithConcurrencyLimit creates its workers, each of
\* which runs to its first await: it takes the next index and starts that
\* file's upload
UpSignAccepted ==
    /\ upPc = "signing"
    /\ \E n \in 0..MaxLoad, path \in UploadPaths :
         /\ signs' = n
         /\ uploadPath' = path
         /\ IF n = 0
            THEN /\ RequestCompletion(path)
                 /\ UNCHANGED <<index, results, workers, fileSt>>
            ELSE LET w == WorkerCount(MAX_CONCURRENT_UPLOADS, n)
                 IN \E exists \in [1..w -> BOOLEAN] :
                      /\ Cardinality({f \in 1..w : ~exists[f]}) <= MaxFaults(n)
                      /\ upPc' = "uploading"
                      /\ index' = w
                      /\ workers' = [k \in 1..w |-> k]
                      /\ results' = [f \in 1..n |-> "unset"]
                      /\ fileSt' = [f \in 1..n |->
                                      IF f <= w THEN StartUpload(exists[f])
                                      ELSE [phase |-> "pending", attempt |-> 0,
                                            log |-> <<>>]]
                      /\ UNCHANGED <<upOutcome, upError, completePosts>>
    /\ UNCHANGED <<failCount, signPosts>>
    /\ UNCHANGED <<segVars, bunVars, movVars, mediaKeySet, langVars, actVars, runVars>>

\* the worker that held file f continues after its await: it stores the
\* result, and while (index < items.length) takes index++ and starts that
\* file's upload; otherwise it returns
WorkerContinueSameIndex(f, st, value) ==
    LET w == WorkerOf(f)
        stored == [results EXCEPT ![f] = value]
        ended == [fileSt EXCEPT ![f] = st]
    IN /\ results' = stored
       /\ IF index < signs
          THEN /\ index' = index
               /\ workers' = [workers EXCEPT ![w] = index + 1]
               /\ \E exists \in BOOLEAN :
                    /\ exists \/ FaultsIn(ended) < MaxFaults(signs)
                    /\ fileSt' = [ended EXCEPT ![index + 1] = StartUpload(exists)]
          ELSE /\ index' = index
               /\ workers' = [workers EXCEPT ![w] = 0]
               /\ fileSt' = ended

WorkerContinue(f, st, value) ==
    LET w == WorkerOf(f)
        stored == [results EXCEPT ![f] = value]
        ended == [fileSt EXCEPT ![f] = st]
    IN /\ results' = stored
       /\ IF index < signs
          THEN /\ index' = index + 1
               /\ workers' = [workers EXCEPT ![w] = index + 1]
               /\ \E exists \in BOOLEAN :
                    /\ exists \/ FaultsIn(ended) < MaxFaults(signs)
                    /\ fileSt' = [ended EXCEPT ![index + 1] = StartUpload(exists)]
          ELSE /\ index' = index
               /\ workers' = [workers EXCEPT ![w] = 0]
               /\ fileSt' = ended

\* a PUT of file f comes back
PutResponse(f) ==
    /\ upPc = "uploading"
    /\ fileSt[f].phase = "put"
    /\ \E response \in PutResponses :
         /\ response = "ok" \/ FaultsIn(fileSt) < MaxFaults(signs)
         /\ LET st == Received(fileSt[f], response)
            IN IF response = "ok"
               THEN WorkerContinue(f, FileDone(st), "true")
               ELSE IF ShouldRetry(response, st.attempt)
               THEN /\ fileSt' = [fileSt EXCEPT ![f] = [phase |-> "sleep",
                                      attempt |-> st.attempt, log |-> st.log]]
                    /\ UNCHANGED <<index, results, workers>>
               ELSE WorkerContinue(f, FileDone(st), "false")
    /\ UNCHANGED <<upPc, upOutcome, upError, signs, uploadPath, failCount,
                   signPosts, completePosts>>
    /\ UNCHANGED <<segVars, bunVars, movVars, mediaKeySet, langVars, actVars, runVars>>

\* the backoff sleep of file f is over: continue the for loop with attempt + 1
BackoffElapsed(f) ==
    /\ upPc = "uploading"
    /\ fileSt[f].phase = "sleep"
    /\ IF fileSt[f].attempt + 1 <= MAX_RETRIES
       THEN /\ fileSt' = [fileSt EXCEPT ![f] = [phase |-> "put",
                              attempt |-> fileSt[f].attempt + 1, log |-> fileSt[f].log]]
            /\ UNCHANGED <<index, results, workers>>
       ELSE WorkerContinue(f, FileDone(fileSt[f]), "false")
    /\ UNCHANGED <<upPc, upOutcome, upError, signs, uploadPath, failCount,
                   signPosts, completePosts>>
    /\ UNCHANGED <<segVars, bunVars, movVars, mediaKeySet, langVars, actVars, runVars>>

\* uploadFileToR2 returned false for the missing file f
MissingFileResolved(f) ==
    /\ upPc = "uploading"
    /\ fileSt[f].phase = "missing"
    /\ WorkerContinue(f, FileDone(fileSt[f]), "false")
    /\ UNCHANGED <<upPc, upOutcome, upError, signs, uploadPath, failCount,
                   signPosts, completePosts>>
    /\ UNCHANGED <<segVars, bunVars, movVars, mediaKeySet, langVars, actVars, runVars>>

\* Promise.all(workers) resolved: count the failures, throw or call the
\* completion endpoint
UpUploadsSettled ==
    /\ upPc = "uploading"
    /\ AllWorkersReturned
    /\ failCount' = FailCountOf(results)
    /\ IF UploadFailed(FailCountOf(results))
       THEN Throw("upload") /\ UNCHANGED completePosts
       ELSE RequestCompletion(uploadPath)
    /\ UNCHANGED <<signs, uploadPath, index, results, workers, fileSt, signPosts>>
    /\ UNCHANGED <<segVars, bunVars, movVars, mediaKeySet, langVars, actVars, runVars>>

\* the completion POST comes back
UpCompleteResponse ==
    /\ upPc = "completing"
    /\ \E ok \in BOOLEAN :
         IF ok
         THEN upPc' = "done" /\ upOutcome' = "success" /\ UNCHANGED upError
         ELSE Throw("complete")
    /\ UNCHANGED <<signs, uploadPath, index, results, workers, fileSt, failCount,
                   signPosts, completePosts>>
    /\ UNCHANGED <<segVars, bunVars, movVars, mediaKeySet, langVars, actVars, runVars>>

NextUpload ==
    \/ UpNoApiKey
    \/ UpManifestMissing
    \/ UpRequestSigns
    \/ UpSignRejected
    \/ UpSignAccepted
    \/ \E f \in 1..Len(fileSt) : PutResponse(f)
    \/ \E f \in 1..Len(fileSt) : BackoffElapsed(f)
    \/ \E f \in 1..Len(fileSt) : MissingFileResolved(f)
    \/ UpUploadsSettled
    \/ UpCompleteResponse

SpecUpload == InitUpload /\ [][NextUpload]_vars

----------------------------------------------------------------------------
(* Properties of the upload *)

\* the pool has returned to uploadBundleDir (failCount is computed right
\* after await uploadWithConcurrencyLimit)
PoolReturned == failCount >= 0

\* what uploadFileToR2 answered for a file that is done
Succeeded(st) == Len(st.log) > 0 /\ st.log[Len(st.log)] = "ok"

\* C5: a file gets at most 3 PUTs; every PUT after the first follows a 5xx
\* response or a network error; a non-OK response below 500 is the last
\* response of its file, which then ends as failed (after a single attempt
\* when it is the first response); the responses 503, 503, 200 end in
\* success with exactly three PUTs, that is two retries.
C5_RetryOnlyServerOrNetwork ==
    \A f \in 1..Len(fileSt) :
        LET st == fileSt[f]
        IN /\ st.attempt <= 3
           /\ Len(st.log) \in {st.attempt, st.attempt - 1}
           /\ \A k \in 1..Len(st.log) :
                  /\ k < st.attempt => st.log[k] \in {"server", "network"}
                  /\ st.log[k] = "client" =>
                        /\ k = st.attempt
                        /\ st.phase = "done"
                        /\ results[f] = "false"
           /\ st.phase = "sleep" => st.log[Len(st.log)] \in {"server", "network"}
           /\ st.log = <<"client">> => st.attempt = 1 /\ st.phase = "done"
           /\ st.log = <<"server", "server", "ok">> =>
                  st.attempt = 3 /\ st.phase = "done" /\ results[f] = "true"

\* a file answered 503, 503, 200 and another answered 404 at once
C5_Witness ==
    /\ \E f \in 1..Len(fileSt) :
          fileSt[f].log = <<"server", "server", "ok">> /\ results[f] = "true"
    /\ \E f \in 1..Len(fileSt) :
          fileSt[f].log = <<"client">> /\ results[f] = "false"

\* the files that a worker takes in a step
NewlyHeld ==
    { f \in 1..Len(fileSt') :
        \E w \in 1..Len(workers') :
            /\ workers'[w] = f
            /\ ~(w \in 1..Len(workers) /\ workers[w] = f) }

C6_TakenInOrder ==
    /\ index <= signs
    /\ \A f \in 1..Len(fileSt) : (fileSt[f].phase # "pending") <=> (f <= index)
    /\ \A f \in InFlight : Cardinality({ w \in 1..Len(workers) : workers[w] = f }) = 1
    /\ \A w \in 1..Len(workers) : workers[w] # 0 => workers[w] \in InFlight
    /\ PoolReturned =>
          /\ index = signs
          /\ \A f \in 1..signs :
                /\ fileSt[f].phase = "done"
                /\ results[f] = IF Succeeded(fileSt[f]) THEN "true" ELSE "false"

C6_TakeStep ==
    /\ index' >= index
    /\ NewlyHeld = (index + 1)..index'
    /\ \A f \in NewlyHeld :
          Cardinality({ w \in 1..Len(workers') : workers'[w] = f }) = 1

\* C6: under every interleaving the shared index only increases, the files
\* a step hands out are exactly the next ones after the index, each to one
\* worker, so that every file is taken once by one worker and none is
\* skipped; the pool returns only when every file is done, with the result
\* of file i at position i.
C6_EachFileTakenOnce == []C6_TakenInOrder /\ [][C6_TakeStep]_vars

\* more files than workers: five uploads are in flight, the sixth file went
\* to the worker whose file was done first, and that file had failed
C6_Witness ==
    /\ signs > MAX_CONCURRENT_UPLOADS
    /\ index = 6
    /\ \E w \in 1..Len(workers) : workers[w] = 6 /\ w # 1
    /\ \E f \in 1..5 : results[f] = "false"
    /\ results[1] = "unset"

\* C7: the number of uploads in flight never exceeds the concurrency limit
\* of 5, and the number of workers created is min(5, number of files) and
\* stays that from the start of the pool to its end.
C7_InFlightBounded ==
    /\ Cardinality(InFlight) <= 5
    /\ Cardinality({ w \in 1..Len(workers) : workers[w] # 0 }) <= 5
    /\ signs > 0 => Len(workers) = Min2(5, signs)
    /\ signs = 0 => Len(workers) = 0

\* five uploads in flight while a seventh file is still waiting
C7_Witness ==
    /\ signs = 7
    /\ Cardinality(InFlight) = 5
    /\ index = 6
    /\ fileSt[7].phase = "pending"

\* Scenario B: three files, the second answered 404, the others 200
ScenarioB ==
    /\ signs = 3
    /\ fileSt[1].log = <<"ok">>
    /\ fileSt[2].log = <<"client">>
    /\ fileSt[3].log = <<"ok">>

UploadsAttempted ==
    /\ upPc \in {"completing", "done"}
    /\ upError \notin {"manifest", "sign"}

\* C9 as stated: once all file uploads have been attempted, whether they
\* succeeded or failed, the completion endpoint has been called with the
\* contentId.
C9_CompletionAfterAllAttempts ==
    UploadsAttempted => completePosts = << ContentId(uploadPath) >>

\* C9 as amended: once all file uploads have been attempted, the completion
\* endpoint has been called (once, with the contentId) exactly when no file
\* failed and the contentId is not empty; otherwise the invocation raises
\* without calling it.
C9_CompletionOnlyAfterSuccess ==
    UploadsAttempted =>
        IF (\A f \in 1..signs : Succeeded(fileSt[f])) /\ ContentId(uploadPath) # ""
        THEN completePosts = << ContentId(uploadPath) >>
        ELSE completePosts = <<>> /\ upOutcome = "throw"

\* two runs: every file uploaded and the completion endpoint called;
\* a file failed after the others were done and the invocation raised
C9_Witness ==
    /\ UploadsAttempted
    /\ signs >= 2
    /\ \/ completePosts = <<"c1">> /\ upOutcome = "success"
       \/ /\ completePosts = <<>>
          /\ \E f \in 1..signs : ~Succeeded(fileSt[f])
          /\ \E f \in 1..signs : Succeeded(fileSt[f])

----------------------------------------------------------------------------
(* generateMovieBundle, translateText, textToSpeech *)

\* translateText: maxRetries
TRANSLATE_MAX_RETRIES == 3

\* textToSpeech: maxRetries
TTS_MAX_RETRIES == 3

\* at most this many (beat, target language) pairs in one run
MaxPairs == 2

\* beat texts tried: a sentence and a blank transcription
BeatTexts == {"hello", " "}

\* options.targetLangs values tried (the source language is "en")
TargetLangLists == { <<"ja">>, <<"en", "ja">>, <<"ja", "fr">> }

\* message contents the text-completion service answers with: a translation
\* with surrounding blanks, and nothing
CompletionContents == {" hola ", ""}

\* the text an earlier run left in mulmo_view.json for a cached language
EarlierText == "konnichiwa"

\* what an earlier run left for a (beat, language): nothing, the audio file
\* only, or the audio file and the text in mulmo_view.json
CacheStates == {"none", "audio", "audioText"}

AssetExts == {"mp4", "mp3", "jpg"}

\* String.prototype.trim on the texts of this model
Trim(t) ==
    IF t \in {"", " "} THEN ""
    ELSE IF t = " hola " THEN "hola"
    ELSE t

Range(q) == { q[k] : k \in 1..Len(q) }

\* beat.videoSource, beat.audioSource, beat.imageSource of beat i
AssetNames(n) == { <<i, e>> : i \in 1..n, e \in AssetExts }

\* `${segmentNum}_${targetLang}.mp3`
TargetAudio(i, lang) == <<i, lang>>

Absent == [kind |-> "absent", text |-> ""]

\* a file an earlier run left in the output directory
Earlier == [kind |-> "earlier", text |-> ""]

\* a copy of the staged file
Staged == [kind |-> "staged", text |-> ""]

\* audio synthesized from a text
Spoken(t) == [kind |-> "tts", text |-> t]

\* fs.existsSync on the output directory
Exists(name) == outDir[name].kind # "absent"

CopyFileAlways(dir, name) ==
    IF name \in scriptsDir THEN [dir EXCEPT ![name] = Staged] ELSE dir

\* copyFileIfNeeded(src, dest)
CopyFileIfNeeded(dir, name) ==
    IF dir[name].kind = "absent" /\ name \in scriptsDir
    THEN [dir EXCEPT ![name] = Staged]
    ELSE dir

\* existingView.beats?.[i]?.multiLinguals?.[targetLang], "" when there is none
CachedText(i, lang) ==
    IF /\ viewFile.present
       /\ i <= Len(viewFile.beats)
       /\ lang \in DOMAIN viewFile.beats[i].multiLinguals
    THEN viewFile.beats[i].multiLinguals[lang]
    ELSE ""

CacheHitNever(i, lang) == FALSE

\* lines 194-207: the audio file exists and mulmo_view.json holds a text
CacheHit(i, lang) == Exists(TargetAudio(i, lang)) /\ CachedText(i, lang) # ""

NeedsSpeechAlways(i, lang) == TRUE

\* line 220: !fs.existsSync(targetAudioPath)
NeedsSpeech(i, lang) == ~Exists(TargetAudio(i, lang))

\* response.choices[0]?.message?.content?.trim() || text
TranslateResult(content, text) == IF Trim(content) # "" THEN Trim(content) ELSE text

TranslateExhaustedRaises(text) == [raise |-> TRUE, value |-> text]

\* attempt === maxRetries in the catch block of translateText: return text
TranslateExhausted(text) == [raise |-> FALSE, value |-> text]

BeatData(i, as, ml) ==
    [text |-> beats[i], audioSources |-> as, multiLinguals |-> ml,
     videoSource |-> <<i, "mp4">>, thumbnail |-> <<i, "jpg">>,
     startTime |-> beatTimes[i].startTime, endTime |-> beatTimes[i].endTime,
     duration |-> beatTimes[i].duration]

\* the duration of every beat handed to generateMovieBundle directly
BeatDuration == Sec(30)

\* beat i of back-to-back beats of that duration
BeatTime(i) ==
    [startTime |-> (i - 1) * BeatDuration, endTime |-> i * BeatDuration,
     duration |-> BeatDuration]

\* options.totalDuration values tried
BundleTotals == {Sec(60), Sec(90)}

\* the locals of generateMovieBundle that the language loop changes
Local ==
    [pc |-> bPc, lj |-> lj, attempt |-> attempt, translatedText |-> translatedText,
     audioSources |-> audioSources, multiLinguals |-> multiLinguals,
     translateCalls |-> translateCalls, abortReason |-> abortReason,
     calls |-> calls, ttsExhausted |-> ttsExhausted]

SetLocal(r) ==
    /\ bPc' = r.pc
    /\ lj' = r.lj
    /\ attempt' = r.attempt
    /\ translatedText' = r.translatedText
    /\ audioSources' = r.audioSources
    /\ multiLinguals' = r.multiLinguals
    /\ translateCalls' = r.translateCalls
    /\ abortReason' = r.abortReason
    /\ calls' = r.calls
    /\ ttsExhausted' = r.ttsExhausted

WithAudioDropped(r, i, lang) == r

\* audioSources[targetLang] = targetAudioFile
WithAudio(r, i, lang) ==
    [r EXCEPT !.audioSources = (lang :> TargetAudio(i, lang)) @@ r.audioSources]

\* the end of one pass of the language loop: the locals of the pass and of
\* the calls it made are gone
NextLang(r) ==
    [r EXCEPT !.pc = "lang", !.lj = r.lj + 1, !.attempt = 0,
              !.translatedText = "", !.translateCalls = 0]

\* an exception leaves generateMovieBundle
Abort(r, reason) == [r EXCEPT !.pc = "aborted", !.abortReason = reason]

SpeechExhaustedContinues(r, i, lang) ==
    NextLang(WithAudio([r EXCEPT !.ttsExhausted = r.ttsExhausted \cup {<<i, lang>>}],
                       i, lang))

\* attempt === maxRetries in the catch block of textToSpeech: throw error,
\* which nothing in generateMovieBundle catches
SpeechExhausted(r, i, lang) ==
    Abort([r EXCEPT !.ttsExhausted = r.ttsExhausted \cup {<<i, lang>>}], "tts")

\* lines 217-224, translateText having returned t: record the text, then
\* synthesize unless the audio file exists (textToSpeech returns at once on
\* a blank text)
AfterTranslate(r, i, lang, t) ==
    LET r1 == [r EXCEPT !.translatedText = t,
                        !.multiLinguals = (lang :> t) @@ r.multiLinguals]
    IN IF NeedsSpeech(i, lang)
       THEN IF Trim(t) = ""
            THEN NextLang(WithAudio(r1, i, lang))
            ELSE [r1 EXCEPT !.pc = "speaking", !.attempt = 1,
                            !.calls = r.calls \cup {<<i, lang, "tts">>}]
       ELSE NextLang(WithAudio(r1, i, lang))

TargetsOf(langs) == Range(langs) \ {"en"}

InitBundle ==
    /\ RunsIdle
    /\ ActionIdle
    /\ LangIdle
    /\ SegmentsIdle
    /\ UploadIdle
    /\ MovieIdle
    /\ bPc = "start"
    /\ apiKeySet \in BOOLEAN
    /\ sourceLang = "en"
    /\ targetLangs \in TargetLangLists
    /\ beats \in UNION { [1..n -> BeatTexts] : n \in 0..MaxPairs }
    /\ Len(beats) * Cardinality(TargetsOf(targetLangs)) <= MaxPairs
    /\ scriptsDir = AssetNames(Len(beats))
    /\ beatTimes = [i \in 1..Len(beats) |-> BeatTime(i)]
    /\ optTotalDuration \in BundleTotals
    /\ \E cache \in [(1..Len(beats)) \X TargetsOf(targetLangs) -> CacheStates],
          rerun \in BOOLEAN :
         /\ outDir = [name \in AssetNames(Len(beats))
                                \cup ((1..Len(beats)) \X TargetsOf(targetLangs)) |->
                        IF name \in AssetNames(Len(beats))
                        THEN (IF rerun THEN Earlier ELSE Absent)
                        ELSE IF cache[name] = "none" THEN Absent
                        ELSE Spoken(EarlierText)]
         /\ viewFile =
              IF \E name \in DOMAIN cache : cache[name] = "audioText"
              THEN [present |-> TRUE, lang |-> "en", totalDuration |-> optTotalDuration,
                    totalSegments |-> Len(beats),
                    beats |-> [i \in 1..Len(beats) |->
                       BeatData(i,
                         [l \in {"en"} \cup { t \in TargetsOf(targetLangs) :
                                               cache[<<i, t>>] # "none" } |->
                            IF l = "en" THEN <<i, "mp3">> ELSE TargetAudio(i, l)],
                         [l \in {"en"} \cup { t \in TargetsOf(targetLangs) :
                                               cache[<<i, t>>] = "audioText" } |->
                            IF l = "en" THEN beats[i] ELSE EarlierText])]]
              ELSE [present |-> FALSE]
    /\ bi = 1
    /\ lj = 1
    /\ attempt = 0
    /\ translatedText = ""
    /\ audioSources = <<>>
    /\ multiLinguals = <<>>
    /\ bundleBeats = <<>>
    /\ translateCalls = 0
    /\ exhausted = {}
    /\ abortReason = "none"
    /\ outDir0 = outDir
    /\ viewFile0 = viewFile
    /\ calls = {}
    /\ ttsExhausted = {}

bunInputs == <<apiKeySet, beats, sourceLang, targetLangs, scriptsDir,
               beatTimes, optTotalDuration, outDir0, viewFile0>>

\* lines 142-147: the API key check
BunStart ==
    /\ bPc = "start"
    /\ IF apiKeySet
       THEN SetLocal([Local EXCEPT !.pc = "beat"])
       ELSE SetLocal(Abort(Local, "apiKey"))
    /\ UNCHANGED <<bunInputs, outDir, viewFile, bi, bundleBeats, exhausted>>
    /\ UNCHANGED <<segVars, upVars, movVars, langVars, actVars, runVars>>

\* lines 156-182: copy the beat's assets and start its two maps with the
\* source language
BunBeatStart ==
    /\ bPc = "beat"
    /\ bi <= Len(beats)
    /\ outDir' = CopyFileIfNeeded(CopyFileIfNeeded(CopyFileIfNeeded(outDir,
                     <<bi, "mp4">>), <<bi, "mp3">>), <<bi, "jpg">>)
    /\ SetLocal([Local EXCEPT !.pc = "lang", !.lj = 1,
                              !.audioSources = (sourceLang :> <<bi, "mp3">>),
                              !.multiLinguals = (sourceLang :> beats[bi])])
    /\ UNCHANGED <<bunInputs, viewFile, bi, bundleBeats, exhausted>>
    /\ UNCHANGED <<segVars, upVars, movVars, langVars, actVars, runVars>>

\* lines 186-188: the target language is the source language
BunLangSkip ==
    /\ bPc = "lang"
    /\ lj <= Len(targetLangs)
    /\ targetLangs[lj] = sourceLang
    /\ SetLocal(NextLang(Local))
    /\ UNCHANGED <<bunInputs, outDir, viewFile, bi, bundleBeats, exhausted>>
    /\ UNCHANGED <<segVars, upVars, movVars, langVars, actVars, runVars>>

\* lines 194-207: the audio file exists and mulmo_view.json holds a text
BunLangCached ==
    /\ bPc = "lang"
    /\ lj <= Len(targetLangs)
    /\ targetLangs[lj] # sourceLang
    /\ CacheHit(bi, targetLangs[lj])
    /\ LET lang == targetLangs[lj]
           r == WithAudio(Local, bi, lang)
       IN SetLocal(NextLang([r EXCEPT !.multiLinguals =
                        (lang :> CachedText(bi, lang)) @@ r.multiLinguals]))
    /\ UNCHANGED <<bunInputs, outDir, viewFile, bi, bundleBeats, exhausted>>
    /\ UNCHANGED <<segVars, upVars, movVars, langVars, actVars, runVars>>

\* lines 194-216 otherwise: translateText is called; on a blank text it
\* returns "" without calling the service
BunTranslate ==
    /\ bPc = "lang"
    /\ lj <= Len(targetLangs)
    /\ targetLangs[lj] # sourceLang
    /\ ~CacheHit(bi, targetLangs[lj])
    /\ LET lang == targetLangs[lj]
           r == IF Exists(TargetAudio(bi, lang)) THEN WithAudio(Local, bi, lang) ELSE Local
       IN IF Trim(beats[bi]) = ""
          THEN SetLocal(AfterTranslate(r, bi, lang, ""))
          ELSE SetLocal([r EXCEPT !.pc = "translating", !.attempt = 1,
                                  !.translateCalls = 1,
                                  !.calls = calls \cup {<<bi, lang, "translate">>}])
    /\ UNCHANGED <<bunInputs, outDir, viewFile, bi, bundleBeats, exhausted>>
    /\ UNCHANGED <<segVars, upVars, movVars, langVars, actVars, runVars>>

\* the text-completion call answers
TranslateSucceeded ==
    /\ bPc = "translating"
    /\ \E content \in CompletionContents :
         SetLocal(AfterTranslate(Local, bi, targetLangs[lj],
                                 TranslateResult(content, beats[bi])))
    /\ UNCHANGED <<bunInputs, outDir, viewFile, bi, bundleBeats, exhausted>>
    /\ UNCHANGED <<segVars, upVars, movVars, langVars, actVars, runVars>>

\* the text-completion call throws
TranslateFailed ==
    /\ bPc = "translating"
    /\ IF attempt = TRANSLATE_MAX_RETRIES
       THEN /\ exhausted' = exhausted \cup {<<bi, targetLangs[lj]>>}
            /\ LET out == TranslateExhausted(beats[bi])
               IN IF out.raise
                  THEN SetLocal(Abort(Local, "translate"))
                  ELSE SetLocal(AfterTranslate(Local, bi, targetLangs[lj], out.value))
       ELSE /\ SetLocal([Local EXCEPT !.pc = "translateBackoff"])
            /\ UNCHANGED exhausted
    /\ UNCHANGED <<bunInputs, outDir, viewFile, bi, bundleBeats>>
    /\ UNCHANGED <<segVars, upVars, movVars, langVars, actVars, runVars>>

\* the backoff of translateText is over: next pass of its for loop
TranslateBackoffElapsed ==
    /\ bPc = "translateBackoff"
    /\ attempt + 1 <= TRANSLATE_MAX_RETRIES
    /\ SetLocal([Local EXCEPT !.pc = "translating", !.attempt = attempt + 1,
                              !.translateCalls = translateCalls + 1])
    /\ UNCHANGED <<bunInputs, outDir, viewFile, bi, bundleBeats, exhausted>>
    /\ UNCHANGED <<segVars, upVars, movVars, langVars, actVars, runVars>>

\* the speech call answers: the audio file is written
SpeechSucceeded ==
    /\ bPc = "speaking"
    /\ outDir' = [outDir EXCEPT ![TargetAudio(bi, targetLangs[lj])] =
                     Spoken(translatedText)]
    /\ SetLocal(NextLang(WithAudio(Local, bi, targetLangs[lj])))
    /\ UNCHANGED <<bunInputs, viewFile, bi, bundleBeats, exhausted>>
    /\ UNCHANGED <<segVars, upVars, movVars, langVars, actVars, runVars>>

\* the speech call throws: rethrown at the last attempt
SpeechFailed ==
    /\ bPc = "speaking"
    /\ IF attempt = TTS_MAX_RETRIES
       THEN SetLocal(SpeechExhausted(Local, bi, targetLangs[lj]))
       ELSE SetLocal([Local EXCEPT !.pc = "speakBackoff"])
    /\ UNCHANGED <<bunInputs, outDir, viewFile, bi, bundleBeats, exhausted>>
    /\ UNCHANGED <<segVars, upVars, movVars, langVars, actVars, runVars>>

\* the backoff of textToSpeech is over: next pass of its for loop
SpeechBackoffElapsed ==
    /\ bPc = "speakBackoff"
    /\ attempt + 1 <= TTS_MAX_RETRIES
    /\ SetLocal([Local EXCEPT !.pc = "speaking", !.attempt = attempt + 1])
    /\ UNCHANGED <<bunInputs, outDir, viewFile, bi, bundleBeats, exhausted>>
    /\ UNCHANGED <<segVars, upVars, movVars, langVars, actVars, runVars>>

PushBeatFront(list, b) == <<b>> \o list

\* bundleBeats.push({...})
PushBeat(list, b) == Append(list, b)

\* the sum of the durations of a list of beats
RECURSIVE SumDurations(_)
SumDurations(list) ==
    IF list = <<>> THEN 0 ELSE list[1].duration + SumDurations(Tail(list))

\* totalDuration of mulmoView: the totalDuration of the options
ManifestTotal(list) == optTotalDuration

\* lines 227-236: every target language is done, push the beat
BunBeatEnd ==
    /\ bPc = "lang"
    /\ lj > Len(targetLangs)
    /\ bundleBeats' = PushBeat(bundleBeats, BeatData(bi, audioSources, multiLinguals))
    /\ bi' = bi + 1
    /\ SetLocal([Local EXCEPT !.pc = "beat"])
    /\ UNCHANGED <<bunInputs, outDir, viewFile, exhausted>>
    /\ UNCHANGED <<segVars, upVars, movVars, langVars, actVars, runVars>>

\* lines 239-251: write mulmo_view.json and return
BunWriteManifest ==
    /\ bPc = "beat"
    /\ bi > Len(beats)
    /\ viewFile' = [present |-> TRUE, lang |-> sourceLang,
                    totalDuration |-> ManifestTotal(bundleBeats),
                    totalSegments |-> Len(beats), beats |-> bundleBeats]
    /\ SetLocal([Local EXCEPT !.pc = "done"])
    /\ UNCHANGED <<bunInputs, outDir, bi, bundleBeats, exhausted>>
    /\ UNCHANGED <<segVars, upVars, movVars, langVars, actVars, runVars>>

NextBundle ==
    \/ BunStart
    \/ BunBeatStart
    \/ BunLangSkip
    \/ BunLangCached
    \/ BunTranslate
    \/ TranslateSucceeded
    \/ TranslateFailed
    \/ TranslateBackoffElapsed
    \/ SpeechSucceeded
    \/ SpeechFailed
    \/ SpeechBackoffElapsed
    \/ BunBeatEnd
    \/ BunWriteManifest

SpecBundle == InitBundle /\ [][NextBundle]_vars

(* resolveLang, detectLang (src/src/utils/lang.ts) *)

\* the JavaScript value undefined
Undefined == "undefined"

SUPPORTED_LANGS == {"en", "ja", "fr", "de"}

DEFAULT_LANG == "en"

\* values of the CLI option and of MULMO_LANG tried: none, the empty string,
\* the supported codes and two unsupported ones
LangValues == {Undefined, "", "en", "ja", "fr", "de", "es", "EN"}

\* texts arguments tried: none, an empty list, a text below 10 characters, a
\* text franc cannot classify, and texts in five languages
TextSamples ==
    {Undefined, "empty", "short", "noise", "english", "japanese", "french",
     "german", "spanish"}

\* texts && texts.length > 0
HasTexts(texts) == texts \notin {Undefined, "empty"}

\* combinedText.length < 10
TooShort(texts) == texts \in {"empty", "short"}

\* franc(combinedText): an ISO 639-3 code, "und" when it cannot tell
Franc(texts) ==
    CASE texts = "english" -> "eng"
      [] texts = "japanese" -> "jpn"
      [] texts = "french" -> "fra"
      [] texts = "german" -> "deu"
      [] texts = "spanish" -> "spa"
      [] OTHER -> "und"

\* FRANC_TO_LANG[detected]
FrancToLang(code) ==
    CASE code = "eng" -> "en"
      [] code = "jpn" -> "ja"
      [] code = "fra" -> "fr"
      [] code = "deu" -> "de"
      [] OTHER -> Undefined

IsValidLangAnyValue(l) == l \notin {Undefined, ""}

\* cliLang && isValidLang(cliLang): a non-empty supported code
IsValidLang(l) == l \in SUPPORTED_LANGS

\* detectLang(texts)
DetectLang(texts) ==
    IF TooShort(texts) THEN Undefined
    ELSE IF Franc(texts) = "und" THEN Undefined
    ELSE FrancToLang(Franc(texts))

\* resolveLang(cliLang, texts) with MULMO_LANG = envLang
ResolveLang(cliLang, envLang, texts) ==
    IF IsValidLang(cliLang) THEN cliLang
    ELSE IF IsValidLang(envLang) THEN envLang
    ELSE IF HasTexts(texts) /\ DetectLang(texts) # Undefined THEN DetectLang(texts)
    ELSE DEFAULT_LANG

InitLang ==
    /\ RunsIdle
    /\ SegmentsIdle
    /\ UploadIdle
    /\ BundleIdle
    /\ MovieIdle
    /\ ActionIdle
    /\ langCall \in [pc : {"call"}, cli : LangValues, env : LangValues,
                     texts : TextSamples, result : {Undefined}]

\* the call returns
LangResolve ==
    /\ langCall.pc = "call"
    /\ langCall' = [langCall EXCEPT
                      !.pc = "returned",
                      !.result = ResolveLang(langCall.cli, langCall.env, langCall.texts)]
    /\ UNCHANGED <<segVars, upVars, bunVars, movVars, actVars, runVars>>

NextLangCall == LangResolve

SpecLang == InitLang /\ [][NextLangCall]_vars

----------------------------------------------------------------------------
(* Two generateMovieBundle invocations on one bundle directory, saveAudio *)

\* beats of the script two invocations that run one after the other are given
MaxSharedBeats == 1

\* langKey values of the saveAudio requests tried
RecordLangs == {"ja", "de"}

\* text values of the saveAudio requests tried
RecordTexts == {Undefined, "narration"}

\* the target languages two interleaved invocations are both given, with a
\* script of one beat
InterleavedTargetLangs == <<"ja">>

\* languages an audio file of the bundle directory may be named for
DiskLangs == {"en", "ja", "fr", "de"}

\* a narration saveAudio converted to MP3
Recorded == [kind |-> "recorded", text |-> ""]

\* the locals and arguments of the invocation the bundle variables hold
Invocation ==
    [pc |-> bPc, targetLangs |-> targetLangs, bi |-> bi, lj |-> lj,
     attempt |-> attempt, translatedText |-> translatedText,
     audioSources |-> audioSources, multiLinguals |-> multiLinguals,
     bundleBeats |-> bundleBeats, translateCalls |-> translateCalls,
     exhausted |-> exhausted, abortReason |-> abortReason, calls |-> calls,
     ttsExhausted |-> ttsExhausted, outDir0 |-> outDir0, viewFile0 |-> viewFile0]

\* an invocation that has not run its first statement
NotStarted(langs) ==
    [pc |-> "start", targetLangs |-> langs, bi |-> 1, lj |-> 1,
     attempt |-> 0, translatedText |-> "",
     audioSources |-> <<>>, multiLinguals |-> <<>>,
     bundleBeats |-> <<>>, translateCalls |-> 0,
     exhausted |-> {}, abortReason |-> "none", calls |-> {},
     ttsExhausted |-> {}, outDir0 |-> <<>>, viewFile0 |-> [present |-> FALSE]]

\* generateMovieBundle has returned or thrown
Ended(pc) == pc \in {"done", "aborted"}

MaySwitchAnytime == ~Ended(otherRun.pc)

\* the other invocation may take the next step: after the first has ended
\* when they run one after the other, at every await otherwise
MaySwitch ==
    IF runMode = "sequential"
    THEN activeRun = 1 /\ Ended(bPc) /\ otherRun.pc = "start"
    ELSE ~Ended(otherRun.pc)

InitBundleRuns ==
    /\ SegmentsIdle
    /\ UploadIdle
    /\ MovieIdle
    /\ LangIdle
    /\ ActionIdle
    /\ runMode \in {"sequential", "interleaved"}
    /\ activeRun = 1
    /\ recorded = {}
    /\ bPc = "start"
    /\ apiKeySet = TRUE
    /\ sourceLang = "en"
    /\ targetLangs \in TargetLangLists
    /\ otherRun = NotStarted(targetLangs)
    /\ beats \in UNION { [1..n -> BeatTexts] : n \in 1..MaxSharedBeats }
    /\ scriptsDir \in {AssetNames(Len(beats)), AssetNames(Len(beats)) \ {<<1, "mp3">>}}
    /\ runMode = "interleaved" =>
          /\ targetLangs = InterleavedTargetLangs
          /\ beats \in { <<t>> : t \in BeatTexts }
          /\ scriptsDir = AssetNames(Len(beats))
    /\ beatTimes = [i \in 1..Len(beats) |-> BeatTime(i)]
    /\ optTotalDuration = Len(beats) * BeatDuration
    /\ outDir = [name \in AssetNames(Len(beats)) \cup ((1..Len(beats)) \X DiskLangs) |->
                    Absent]
    /\ viewFile = [present |-> FALSE]
    /\ bi = 1
    /\ lj = 1
    /\ attempt = 0
    /\ translatedText = ""
    /\ audioSources = <<>>
    /\ multiLinguals = <<>>
    /\ bundleBeats = <<>>
    /\ translateCalls = 0
    /\ exhausted = {}
    /\ abortReason = "none"
    /\ outDir0 = outDir
    /\ viewFile0 = viewFile
    /\ calls = {}
    /\ ttsExhausted = {}

\* the other invocation takes the next step
BunSwitch ==
    /\ runMode # "single"
    /\ MaySwitch
    /\ otherRun' = Invocation
    /\ activeRun' = 3 - activeRun
    /\ bPc' = otherRun.pc
    /\ targetLangs' = otherRun.targetLangs
    /\ bi' = otherRun.bi
    /\ lj' = otherRun.lj
    /\ attempt' = otherRun.attempt
    /\ translatedText' = otherRun.translatedText
    /\ audioSources' = otherRun.audioSources
    /\ multiLinguals' = otherRun.multiLinguals
    /\ bundleBeats' = otherRun.bundleBeats
    /\ translateCalls' = otherRun.translateCalls
    /\ exhausted' = otherRun.exhausted
    /\ abortReason' = otherRun.abortReason
    /\ calls' = otherRun.calls
    /\ ttsExhausted' = otherRun.ttsExhausted
    /\ outDir0' = IF otherRun.pc = "start" THEN outDir ELSE otherRun.outDir0
    /\ viewFile0' = IF otherRun.pc = "start" THEN viewFile ELSE otherRun.viewFile0
    /\ UNCHANGED <<apiKeySet, beats, sourceLang, scriptsDir, beatTimes, optTotalDuration,
                   outDir, viewFile, runMode, recorded>>
    /\ UNCHANGED <<segVars, upVars, movVars, langVars, actVars>>

\* beat.multiLinguals[originalLang] || beat.text || ""
PlaceholderText(beat, originalLang) ==
    IF originalLang \in DOMAIN beat.multiLinguals /\ beat.multiLinguals[originalLang] # ""
    THEN beat.multiLinguals[originalLang]
    ELSE beat.text

\* the text saveAudio stores for langKey
SavedText(beat, originalLang, langKey, text) ==
    IF text # Undefined THEN text
    ELSE IF langKey \in DOMAIN beat.multiLinguals /\ beat.multiLinguals[langKey] # ""
    THEN beat.multiLinguals[langKey]
    ELSE PlaceholderText(beat, originalLang)

\* saveAudio stores a recorded narration of one beat between the two
\* invocations: the MP3 file, then the two maps of the beat in mulmo_view.json
BunSaveAudio ==
    /\ runMode = "sequential"
    /\ activeRun = 1
    /\ bPc = "done"
    /\ otherRun.pc = "start"
    /\ recorded = {}
    /\ viewFile.present
    /\ \E i \in 1..Len(viewFile.beats), langKey \in RecordLangs, text \in RecordTexts :
         /\ outDir' = [outDir EXCEPT ![<<i, langKey>>] = Recorded]
         /\ viewFile' =
              [viewFile EXCEPT
                 !.beats[i].audioSources = (langKey :> <<i, langKey>>) @@ @,
                 !.beats[i].multiLinguals =
                    (langKey :> SavedText(viewFile.beats[i], viewFile.lang, langKey, text))
                       @@ @]
         /\ recorded' = {<<i, langKey>>}
    /\ UNCHANGED <<runMode, activeRun, otherRun>>
    /\ UNCHANGED <<bunInputs, bi, bundleBeats, exhausted>>
    /\ SetLocal(Local)
    /\ UNCHANGED <<segVars, upVars, movVars, langVars, actVars>>

NextBundleRuns ==
    \/ NextBundle
    \/ BunSwitch
    \/ BunSaveAudio

SpecBundleRuns == InitBundleRuns /\ [][NextBundleRuns]_vars

----------------------------------------------------------------------------
(* runAction (src/src/actions/common.ts, src/src/cli.ts) *)

\* detectFileType: the four presentation types, "unsupported" when it throws
FileTypes == {"pptx", "marp", "keynote", "pdf", "unsupported"}

\* !force && fs.existsSync(mulmoScriptPath)
ReuseScript(forced, exists) == ~forced /\ exists

ScriptGeneratedAlways(exists) == TRUE

\* fs.existsSync(mulmoScriptPath) after the conversion
ScriptGenerated(exists) == exists

InitAction ==
    /\ RunsIdle
    /\ SegmentsIdle
    /\ UploadIdle
    /\ BundleIdle
    /\ MovieIdle
    /\ LangIdle
    /\ actPc = "start"
    /\ action \in {"movie", "bundle"}
    /\ force \in BOOLEAN
    /\ inputExists \in BOOLEAN
    /\ fileType \in FileTypes
    /\ scriptExists \in BOOLEAN
    /\ outputDirExists \in BOOLEAN
    /\ converterCalls = 0
    /\ runnerCalls = <<>>
    /\ actError = "none"
    /\ scriptExists0 = scriptExists

actInputs == <<action, force, inputExists, fileType, scriptExists0>>

\* the command ends with exit code 1
ActFail(why) ==
    /\ actPc' = "exited"
    /\ actError' = why

\* the input file does not exist: process.exit(1)
ActFileNotFound ==
    /\ actPc = "start"
    /\ ~inputExists
    /\ ActFail("notFound")
    /\ UNCHANGED <<actInputs, scriptExists, outputDirExists, converterCalls, runnerCalls>>
    /\ UNCHANGED <<segVars, upVars, bunVars, movVars, langVars, runVars>>

\* detectFileType throws on the extension
ActUnsupportedType ==
    /\ actPc = "start"
    /\ inputExists
    /\ fileType = "unsupported"
    /\ ActFail("fileType")
    /\ UNCHANGED <<actInputs, scriptExists, outputDirExists, converterCalls, runnerCalls>>
    /\ UNCHANGED <<segVars, upVars, bunVars, movVars, langVars, runVars>>

\* the existing script is used: the runner is called with it
ActReuseScript ==
    /\ actPc = "start"
    /\ inputExists
    /\ fileType # "unsupported"
    /\ ReuseScript(force, scriptExists)
    /\ outputDirExists' = TRUE
    /\ runnerCalls' = Append(runnerCalls, action)
    /\ actPc' = "running"
    /\ UNCHANGED <<actInputs, scriptExists, converterCalls, actError>>
    /\ UNCHANGED <<segVars, upVars, bunVars, movVars, langVars, runVars>>

\* convertToMulmoScript is called
ActConvert ==
    /\ actPc = "start"
    /\ inputExists
    /\ fileType # "unsupported"
    /\ ~ReuseScript(force, scriptExists)
    /\ outputDirExists' = TRUE
    /\ converterCalls' = converterCalls + 1
    /\ actPc' = "converting"
    /\ UNCHANGED <<actInputs, scriptExists, runnerCalls, actError>>
    /\ UNCHANGED <<segVars, upVars, bunVars, movVars, langVars, runVars>>

\* the converter returns, having written the script or not; the runner is
\* called when the script is on disk
ActConverterReturned ==
    /\ actPc = "converting"
    /\ \E wrote \in BOOLEAN :
         /\ scriptExists' = (scriptExists \/ wrote)
         /\ IF ScriptGenerated(scriptExists')
            THEN /\ runnerCalls' = Append(runnerCalls, action)
                 /\ actPc' = "running"
                 /\ UNCHANGED actError
            ELSE /\ ActFail("notGenerated")
                 /\ UNCHANGED runnerCalls
    /\ UNCHANGED <<actInputs, outputDirExists, converterCalls>>
    /\ UNCHANGED <<segVars, upVars, bunVars, movVars, langVars, runVars>>

\* the converter throws
ActConverterThrew ==
    /\ actPc = "converting"
    /\ ActFail("converter")
    /\ UNCHANGED <<actInputs, scriptExists, outputDirExists, converterCalls, runnerCalls>>
    /\ UNCHANGED <<segVars, upVars, bunVars, movVars, langVars, runVars>>

\* the runner returns: generation complete
ActRunnerReturned ==
    /\ actPc = "running"
    /\ actPc' = "done"
    /\ UNCHANGED <<actInputs, scriptExists, outputDirExists, converterCalls, runnerCalls,
                   actError>>
    /\ UNCHANGED <<segVars, upVars, bunVars, movVars, langVars, runVars>>

\* the runner throws
ActRunnerThrew ==
    /\ actPc = "running"
    /\ ActFail("runner")
    /\ UNCHANGED <<actInputs, scriptExists, outputDirExists, converterCalls, runnerCalls>>
    /\ UNCHANGED <<segVars, upVars, bunVars, movVars, langVars, runVars>>

NextAction ==
    \/ ActFileNotFound
    \/ ActUnsupportedType
    \/ ActReuseScript
    \/ ActConvert
    \/ ActConverterReturned
    \/ ActConverterThrew
    \/ ActRunnerReturned
    \/ ActRunnerThrew

SpecAction == InitAction /\ [][NextAction]_vars

----------------------------------------------------------------------------
(* convertMovie *)

\* minSegmentDuration = 20, in seconds
DefaultMinSegment == 20

\* maxSegmentDuration = 120, in seconds
DefaultMaxSegment == 120

\* durations of the input video tried, in seconds
MovieDurations == {0, 50, 150}

\* what detectSilence finds in a video of duration D: nothing, or one
\* interval when the video is long enough to hold it
MovieSilences(D) ==
    {<<>>} \cup { <<iv>> : iv \in { x \in SilenceIntervals(D \div 2) : x.start = Sec(105) } }

\* options.targetLangs values tried
MovieTargetLangs == { <<"ja">>, <<"en", "ja">> }

\* the names a run over a video of duration D can touch in the bundle directory
MovieFileNames(D) ==
    LET n == D \div Sec(DefaultMinSegment) + 1
    IN AssetNames(n) \cup ((1..n) \X {"ja"})

\* convertMovie is called with options.lang = "en"; MULMO_LANG is not set
MovieLang == "en"

\* the transcriptions as resolveLang sees them (not looked at, the option
\* being supported)
TextsOf(texts) == IF texts = <<>> THEN "empty" ELSE "english"

\* the media tools either write their output or exit with an error
ToolOutcomes == {"ok", "fail"}

ToolNeededAlways(name) == TRUE

\* !fs.existsSync(videoOutputPath), and the same for the audio and thumbnail
ToolNeeded(name) == name \notin scriptsDir

ToolFailedIgnored(nextPc) == [pc |-> nextPc, fail |-> "tool"]

\* execSync throws, and nothing in convertMovie catches it
ToolFailed(nextPc) == [pc |-> "failed", fail |-> "tool"]

segInputs == <<totalDuration, silences, minDuration, maxDuration>>

segLocals == <<segPc, currentStart, segmentIndex, segments>>

movInputs == <<run, videoExists, optBundle, optTargetLangs, scriptsDir0,
               startView, startScript, prev>>

\* the state of generateMovieBundle apart from the two directories, the
\* manifest and the environment
bunRun == <<bPc, beats, sourceLang, targetLangs, bi, lj, attempt, translatedText,
            audioSources, multiLinguals, bundleBeats, translateCalls, exhausted,
            abortReason, beatTimes, optTotalDuration, outDir0, viewFile0, calls,
            ttsExhausted>>

bunDisk == <<apiKeySet, scriptsDir, outDir, viewFile>>

\* generateMovieBundle has not been called
BundleNotCalled ==
    /\ bPc = "idle"
    /\ beats = <<>>
    /\ sourceLang = "en"
    /\ targetLangs = <<>>
    /\ bi = 1
    /\ lj = 1
    /\ attempt = 0
    /\ translatedText = ""
    /\ audioSources = <<>>
    /\ multiLinguals = <<>>
    /\ bundleBeats = <<>>
    /\ translateCalls = 0
    /\ exhausted = {}
    /\ abortReason = "none"
    /\ beatTimes = <<>>
    /\ optTotalDuration = 0
    /\ outDir0 = <<>>
    /\ viewFile0 = [present |-> FALSE]
    /\ calls = {}
    /\ ttsExhausted = {}

\* a first run over fresh directories
InitMovie ==
    /\ RunsIdle
    /\ ActionIdle
    /\ LangIdle
    /\ UploadIdle
    /\ totalDuration \in {Sec(d) : d \in MovieDurations}
    /\ silences \in MovieSilences(totalDuration)
    /\ minDuration = Sec(DefaultMinSegment)
    /\ maxDuration = Sec(DefaultMaxSegment)
    /\ segPc = "idle"
    /\ currentStart = 0
    /\ segmentIndex = 1
    /\ segments = <<>>
    /\ BundleNotCalled
    /\ apiKeySet \in BOOLEAN
    /\ scriptsDir = {}
    /\ outDir = [name \in MovieFileNames(totalDuration) |-> Absent]
    /\ viewFile = [present |-> FALSE]
    /\ mPc = "start"
    /\ run = "first"
    /\ videoExists \in BOOLEAN
    /\ optBundle \in BOOLEAN
    /\ optTargetLangs \in MovieTargetLangs
    /\ mk = 1
    /\ mBeats = <<>>
    /\ scriptFile = [present |-> FALSE]
    /\ toolCalls = {}
    /\ written = {}
    /\ scriptsDir0 = {}
    /\ startView = [present |-> FALSE]
    /\ startScript = [present |-> FALSE]
    /\ mFail = "none"
    /\ prev = [completed |-> FALSE, view |-> [present |-> FALSE]]

ProbedBeforeChecks(tc) == tc \cup {<<0, "probe">>}

\* lines 1140-1153: nothing is run before the two checks
CallsBeforeChecks(tc) == tc

\* lines 1142-1153: the input file or the API key is missing
MovRejected ==
    /\ mPc = "start"
    /\ ~videoExists \/ ~apiKeySet
    /\ mPc' = "failed"
    /\ mFail' = IF ~videoExists THEN "notFound" ELSE "apiKey"
    /\ toolCalls' = CallsBeforeChecks(toolCalls)
    /\ UNCHANGED <<movInputs, mk, mBeats, scriptFile, written>>
    /\ UNCHANGED <<segVars, upVars, bunVars, langVars, actVars, runVars>>

\* lines 1175-1180: ffprobe or the silence detection cannot be run
MovProbeFailed ==
    /\ mPc = "start"
    /\ videoExists /\ apiKeySet
    /\ \E failing \in {"probe", "silence"} :
         toolCalls' = toolCalls \cup
            (IF failing = "probe" THEN {<<0, "probe">>}
                                  ELSE {<<0, "probe">>, <<0, "silence">>})
    /\ mPc' = "failed"
    /\ mFail' = "probe"
    /\ UNCHANGED <<movInputs, mk, mBeats, scriptFile, written>>
    /\ UNCHANGED <<segVars, upVars, bunVars, langVars, actVars, runVars>>

\* lines 1175-1190: the duration and the silences are read and
\* calculateSegments is entered
MovProbed ==
    /\ mPc = "start"
    /\ videoExists /\ apiKeySet
    /\ toolCalls' = toolCalls \cup {<<0, "probe">>, <<0, "silence">>}
    /\ mPc' = "segmenting"
    /\ segPc' = "loop"
    /\ currentStart' = 0
    /\ segmentIndex' = 1
    /\ segments' = <<>>
    /\ UNCHANGED <<movInputs, mk, mBeats, scriptFile, written, mFail>>
    /\ UNCHANGED <<segInputs, upVars, bunVars, langVars, actVars, runVars>>

\* line 1185: calculateSegments returned
MovSegmentsReady ==
    /\ mPc = "segmenting"
    /\ segPc = "done"
    /\ mPc' = "video"
    /\ mk' = 1
    /\ mBeats' = <<>>
    /\ UNCHANGED <<movInputs, scriptFile, toolCalls, written, mFail>>
    /\ UNCHANGED <<segVars, upVars, bunVars, langVars, actVars, runVars>>

\* one of the three cached media steps of a segment: the tool runs only when
\* its target file is missing
MovTool(ext, pc, nextPc) ==
    /\ mPc = pc
    /\ mk <= Len(segments)
    /\ IF ToolNeeded(<<mk, ext>>)
       THEN /\ toolCalls' = toolCalls \cup {<<mk, ext>>}
            /\ \E outcome \in ToolOutcomes :
                 IF outcome = "ok"
                 THEN /\ scriptsDir' = scriptsDir \cup {<<mk, ext>>}
                      /\ written' = written \cup {<<mk, ext>>}
                      /\ mPc' = nextPc
                      /\ mFail' = mFail
                 ELSE /\ mPc' = ToolFailed(nextPc).pc
                      /\ mFail' = ToolFailed(nextPc).fail
                      /\ UNCHANGED <<scriptsDir, written>>
       ELSE /\ mPc' = nextPc
            /\ UNCHANGED <<toolCalls, scriptsDir, written, mFail>>
    /\ UNCHANGED <<movInputs, mk, mBeats, scriptFile>>
    /\ UNCHANGED <<segVars, upVars, bunRun, apiKeySet, outDir, viewFile, langVars, actVars, runVars>>

\* lines 1209-1215
MovSplitVideo == MovTool("mp4", "video", "audio")

\* lines 1217-1223
MovExtractAudio == MovTool("mp3", "audio", "thumb")

\* lines 1225-1231
MovGenerateThumbnail == MovTool("jpg", "thumb", "transcribe")

\* lines 1235-1253: the transcription arrives and the beat is pushed
MovTranscribed ==
    /\ mPc = "transcribe"
    /\ \E text \in BeatTexts : mBeats' = Append(mBeats, text)
    /\ toolCalls' = toolCalls \cup {<<mk, "transcribe">>}
    /\ mk' = mk + 1
    /\ mPc' = "video"
    /\ UNCHANGED <<movInputs, scriptFile, written, mFail>>
    /\ UNCHANGED <<segVars, upVars, bunVars, langVars, actVars, runVars>>

\* line 1235: the transcription request throws
MovTranscribeFailed ==
    /\ mPc = "transcribe"
    /\ toolCalls' = toolCalls \cup {<<mk, "transcribe">>}
    /\ mPc' = "failed"
    /\ mFail' = "transcribe"
    /\ UNCHANGED <<movInputs, mk, mBeats, scriptFile, written>>
    /\ UNCHANGED <<segVars, upVars, bunVars, langVars, actVars, runVars>>

\* the script the run would write
MulmoScript ==
    [present |-> TRUE, lang |-> ResolveLang(MovieLang, Undefined, TextsOf(mBeats)),
     beats |-> mBeats]

\* lines 1282-1287: the schema rejects the script (only a script without
\* beats can be malformed)
MovScriptInvalid ==
    /\ mPc = "video"
    /\ mk > Len(segments)
    /\ mBeats = <<>>
    /\ mPc' = "failed"
    /\ mFail' = "invalid"
    /\ UNCHANGED <<movInputs, mk, mBeats, scriptFile, toolCalls, written>>
    /\ UNCHANGED <<segVars, upVars, bunVars, langVars, actVars, runVars>>

\* lines 1289-1334 with bundle false: write mulmo_script.json and return
MovFinishWithoutBundle ==
    /\ mPc = "video"
    /\ mk > Len(segments)
    /\ ~optBundle
    /\ scriptFile' = MulmoScript
    /\ mPc' = "returned"
    /\ UNCHANGED <<movInputs, mk, mBeats, toolCalls, written, mFail>>
    /\ UNCHANGED <<segVars, upVars, bunVars, langVars, actVars, runVars>>

\* lines 1289-1325: write mulmo_script.json and call generateMovieBundle
MovCallBundle ==
    /\ mPc = "video"
    /\ mk > Len(segments)
    /\ optBundle
    /\ scriptFile' = MulmoScript
    /\ mPc' = "bundling"
    /\ bPc' = "start"
    /\ beats' = mBeats
    /\ beatTimes' = [i \in 1..Len(mBeats) |->
                       [startTime |-> segments[i].startTime,
                        endTime |-> segments[i].endTime,
                        duration |-> segments[i].duration]]
    /\ sourceLang' = ResolveLang(MovieLang, Undefined, TextsOf(mBeats))
    /\ targetLangs' = optTargetLangs
    /\ optTotalDuration' = totalDuration
    /\ outDir0' = outDir
    /\ viewFile0' = viewFile
    /\ bi' = 1
    /\ lj' = 1
    /\ attempt' = 0
    /\ translatedText' = ""
    /\ audioSources' = <<>>
    /\ multiLinguals' = <<>>
    /\ bundleBeats' = <<>>
    /\ translateCalls' = 0
    /\ exhausted' = {}
    /\ abortReason' = "none"
    /\ calls' = {}
    /\ ttsExhausted' = {}
    /\ UNCHANGED <<movInputs, mk, mBeats, toolCalls, written, mFail>>
    /\ UNCHANGED <<segVars, upVars, bunDisk, langVars, actVars, runVars>>

\* line 1318: generateMovieBundle returned
MovBundleReturned ==
    /\ mPc = "bundling"
    /\ bPc = "done"
    /\ mPc' = "returned"
    /\ UNCHANGED <<movInputs, mk, mBeats, scriptFile, toolCalls, written, mFail>>
    /\ UNCHANGED <<segVars, upVars, bunVars, langVars, actVars, runVars>>

\* line 1318: generateMovieBundle threw
MovBundleThrew ==
    /\ mPc = "bundling"
    /\ bPc = "aborted"
    /\ mPc' = "failed"
    /\ mFail' = "bundle"
    /\ UNCHANGED <<movInputs, mk, mBeats, scriptFile, toolCalls, written>>
    /\ UNCHANGED <<segVars, upVars, bunVars, langVars, actVars, runVars>>

\* the command is run a second time on the same video, over the directories
\* the first run left
MovRerun ==
    /\ mPc \in {"returned", "failed"}
    /\ run = "first"
    /\ run' = "second"
    /\ prev' = [completed |-> (mPc = "returned" /\ optBundle), view |-> viewFile]
    /\ scriptsDir0' = scriptsDir
    /\ startView' = viewFile
    /\ startScript' = scriptFile
    /\ mPc' = "start"
    /\ mk' = 1
    /\ mBeats' = <<>>
    /\ toolCalls' = {}
    /\ written' = {}
    /\ mFail' = "none"
    /\ segPc' = "idle"
    /\ currentStart' = 0
    /\ segmentIndex' = 1
    /\ segments' = <<>>
    /\ bPc' = "idle"
    /\ beats' = <<>>
    /\ sourceLang' = "en"
    /\ targetLangs' = <<>>
    /\ bi' = 1
    /\ lj' = 1
    /\ attempt' = 0
    /\ translatedText' = ""
    /\ audioSources' = <<>>
    /\ multiLinguals' = <<>>
    /\ bundleBeats' = <<>>
    /\ translateCalls' = 0
    /\ exhausted' = {}
    /\ abortReason' = "none"
    /\ beatTimes' = <<>>
    /\ optTotalDuration' = 0
    /\ outDir0' = <<>>
    /\ viewFile0' = [present |-> FALSE]
    /\ calls' = {}
    /\ ttsExhausted' = {}
    /\ UNCHANGED <<videoExists, optBundle, optTargetLangs, scriptFile>>
    /\ UNCHANGED <<segInputs, upVars, bunDisk, langVars, actVars, runVars>>

NextMovie ==
    \/ MovRejected
    \/ MovProbeFailed
    \/ MovProbed
    \/ NextSegments
    \/ MovSegmentsReady
    \/ MovSplitVideo
    \/ MovExtractAudio
    \/ MovGenerateThumbnail
    \/ MovTranscribed
    \/ MovTranscribeFailed
    \/ MovScriptInvalid
    \/ MovFinishWithoutBundle
    \/ MovCallBundle
    \/ NextBundle
    \/ MovBundleReturned
    \/ MovBundleThrew
    \/ MovRerun

SpecMovie == InitMovie /\ [][NextMovie]_vars

----------------------------------------------------------------------------
(* Claims about translateText and generateMovieBundle *)

\* the text recorded so far for beat i in language lang ("" when none is):
\* in the pushed beat, or in the map of the beat being processed
RecordedText(i, lang) ==
    IF i <= Len(bundleBeats)
    THEN (IF lang \in DOMAIN bundleBeats[i].multiLinguals
          THEN bundleBeats[i].multiLinguals[lang] ELSE "")
    ELSE (IF i = bi /\ lang \in DOMAIN multiLinguals
          THEN multiLinguals[lang] ELSE "")

\* C10: translateText makes at most 3 calls to the text-completion service;
\* when all 3 fail it returns the source text without raising, so
\* generateMovieBundle does not abort and records the untranslated source
\* text for that language, in its maps and in the mulmo_view.json it writes.
C10_TranslateExhaustionKeepsSourceText ==
    /\ translateCalls <= 3
    /\ abortReason # "translate"
    /\ \A p \in exhausted : RecordedText(p[1], p[2]) = beats[p[1]]
    /\ bPc = "done" =>
         \A p \in exhausted : viewFile.beats[p[1]].multiLinguals[p[2]] = beats[p[1]]

\* a run that finished although a translation failed three times
C10_Witness ==
    /\ bPc = "done"
    /\ \E p \in exhausted :
         /\ beats[p[1]] = "hello"
         /\ viewFile.beats[p[1]].multiLinguals[p[2]] = "hello"

(* Claims about textToSpeech and the cache of generateMovieBundle *)

\* the service calls of this run that belong to a (beat, language) pair after
\* position k of targetLangs in beat i
CallsAfter(i, k) ==
    { c \in calls : \/ c[1] > i
                    \/ c[1] = i /\ ~\E m \in 1..k : targetLangs[m] = c[2] }

\* C11: textToSpeech calls the speech service at most 3 times for one
\* request (attempt counts the calls of the request in progress); when all 3
\* fail the error is raised and generateMovieBundle aborts at that pair: the
\* beat is not pushed, no later language or beat gets a service call, and no
\* manifest is written.
C11_SpeechExhaustionAborts ==
    /\ bPc \in {"speaking", "speakBackoff"} => attempt <= 3
    /\ ttsExhausted # {} =>
         /\ bPc = "aborted"
         /\ abortReason = "tts"
         /\ ttsExhausted = {<<bi, targetLangs[lj]>>}
         /\ Len(bundleBeats) = bi - 1
         /\ CallsAfter(bi, lj) = {}
         /\ ~Exists(TargetAudio(bi, targetLangs[lj]))
         /\ viewFile = viewFile0

\* synthesis failed three times in the first of two beats
C11_Witness ==
    /\ ttsExhausted # {}
    /\ bPc = "aborted"
    /\ bi < Len(beats)
    /\ <<bi, targetLangs[lj], "tts">> \in calls

\* the requested target languages that get a pass of the language loop
Targets == Range(targetLangs) \ {sourceLang}

\* {i}_{lang}.mp3 was in the output directory when the run started
HadAudio(i, lang) == outDir0[TargetAudio(i, lang)].kind # "absent"

\* the text mulmo_view.json held for (i, lang) when the run started, "" if none
HadText(i, lang) ==
    IF /\ viewFile0.present
       /\ i <= Len(viewFile0.beats)
       /\ lang \in DOMAIN viewFile0.beats[i].multiLinguals
    THEN viewFile0.beats[i].multiLinguals[lang]
    ELSE ""

CallsFor(i, lang) == { c \in calls : c[1] = i /\ c[2] = lang }

\* C12: when {i}_{L}.mp3 exists and mulmo_view.json holds a text for (i, L),
\* the run makes no translation and no synthesis call for (i, L), leaves the
\* audio file alone, and puts the cached text and that audio file into the
\* beat it pushes and the manifest it writes.
C12_CachedPairSkipsBothCalls ==
    \A i \in 1..Len(beats) : \A lang \in Targets :
        (HadAudio(i, lang) /\ HadText(i, lang) # "") =>
            /\ CallsFor(i, lang) = {}
            /\ outDir[TargetAudio(i, lang)] = outDir0[TargetAudio(i, lang)]
            /\ i <= Len(bundleBeats) =>
                 /\ bundleBeats[i].multiLinguals[lang] = HadText(i, lang)
                 /\ bundleBeats[i].audioSources[lang] = TargetAudio(i, lang)
            /\ bPc = "done" =>
                 /\ viewFile.beats[i].multiLinguals[lang] = HadText(i, lang)
                 /\ viewFile.beats[i].audioSources[lang] = TargetAudio(i, lang)

\* a finished run over a directory that held the audio and the text of a pair
C12_Witness ==
    /\ bPc = "done"
    /\ \E i \in 1..Len(beats) : \E lang \in Targets :
         /\ HadAudio(i, lang)
         /\ HadText(i, lang) = EarlierText
         /\ viewFile.beats[i].multiLinguals[lang] = EarlierText

\* C13: when {i}_{L}.mp3 exists but mulmo_view.json holds no text for (i, L),
\* the run translates the beat's text to fill the text (a service call unless
\* the text is blank, then the text is ""), makes no synthesis call and
\* leaves the audio file as it was.
C13_AudioWithoutTextTranslatesOnly ==
    \A i \in 1..Len(beats) : \A lang \in Targets :
        (HadAudio(i, lang) /\ HadText(i, lang) = "") =>
            /\ <<i, lang, "tts">> \notin calls
            /\ outDir[TargetAudio(i, lang)] = outDir0[TargetAudio(i, lang)]
            /\ i <= Len(bundleBeats) =>
                 /\ bundleBeats[i].audioSources[lang] = TargetAudio(i, lang)
                 /\ IF Trim(beats[i]) = ""
                    THEN /\ CallsFor(i, lang) = {}
                         /\ bundleBeats[i].multiLinguals[lang] = ""
                    ELSE /\ <<i, lang, "translate">> \in calls
                         /\ bundleBeats[i].multiLinguals[lang] \in
                              { TranslateResult(c, beats[i]) : c \in CompletionContents }

\* a finished run that translated for an audio file it found without a text
C13_Witness ==
    /\ bPc = "done"
    /\ \E i \in 1..Len(beats) : \E lang \in Targets :
         /\ HadAudio(i, lang)
         /\ HadText(i, lang) = ""
         /\ <<i, lang, "translate">> \in calls
         /\ viewFile.beats[i].multiLinguals[lang] = "hola"
         /\ outDir[TargetAudio(i, lang)] = Spoken(EarlierText)

(* Claims about convertMovie *)

\* the second run follows a run that went through to the written manifest
SecondRunAfterCompleted == run = "second" /\ prev.completed

\* C14: a second run of convertMovie and generateMovieBundle over the same
\* directories issues no external call (media tool, transcription,
\* translation, synthesis) and writes a manifest identical to the first one.
C14_SecondRunIdempotent ==
    SecondRunAfterCompleted =>
        /\ toolCalls = {}
        /\ calls = {}
        /\ mPc = "returned" => viewFile = prev.view

\* part of C14: the second run requests no transcription
C14_NoTranscriptionInSecondRun ==
    SecondRunAfterCompleted => ~\E c \in toolCalls : c[2] = "transcribe"

\* part of C14: the second run splits, extracts and thumbnails nothing
C14_NoSegmentToolInSecondRun ==
    SecondRunAfterCompleted => ~\E c \in toolCalls : c[2] \in AssetExts

\* part of C14: the second run requests no translation and no synthesis
C14_NoBundleCallInSecondRun ==
    SecondRunAfterCompleted => calls = {}

\* part of C14: the second run writes the manifest the first run wrote
C14_SameManifestInSecondRun ==
    (SecondRunAfterCompleted /\ mPc = "returned") => viewFile = prev.view

\* the manifest is the same whenever the second run's transcriptions are
C14_SameManifestForSameTranscripts ==
    (/\ SecondRunAfterCompleted
     /\ mPc = "returned"
     /\ beats = [i \in 1..Len(prev.view.beats) |-> prev.view.beats[i].text]) =>
        viewFile = prev.view

\* no translation or synthesis whenever the second run's transcriptions are
\* the first run's
C14_NoBundleCallForSameTranscripts ==
    (/\ SecondRunAfterCompleted
     /\ bPc # "idle"
     /\ beats = [i \in 1..Len(prev.view.beats) |-> prev.view.beats[i].text]) =>
        calls = {}

\* C15: for every segment n the split, audio and thumbnail tools run only
\* when {n}.mp4, {n}.mp3, {n}.jpg respectively does not exist yet; a file
\* that exists is kept, never rewritten, and gets no tool call.
C15_ToolsOnlyForMissingFiles ==
    /\ \A c \in toolCalls : c[2] \in AssetExts => c \notin scriptsDir0
    /\ written \cap scriptsDir0 = {}
    /\ scriptsDir0 \subseteq scriptsDir

\* a second run that reuses the video and audio of segment 1 and makes the
\* thumbnail the first run failed to make
C15_Witness ==
    /\ run = "second"
    /\ {<<1, "mp4">>, <<1, "mp3">>} \subseteq scriptsDir0
    /\ <<1, "jpg">> \in toolCalls
    /\ <<1, "jpg">> \in written
    /\ mk > 1

\* C16: when a media tool or the transcription of segment k fails, the run
\* aborts there: the beat of segment k is not pushed, no call is made for a
\* later segment, generateMovieBundle is not called, and neither
\* mulmo_script.json nor mulmo_view.json is written by that run.
C16_SegmentFailureAbortsRun ==
    mFail \in {"tool", "transcribe"} =>
        /\ mPc = "failed"
        /\ Len(mBeats) = mk - 1
        /\ \A c \in toolCalls : c[1] <= mk
        /\ bPc = "idle"
        /\ scriptFile = startScript
        /\ viewFile = startView

\* a tool fails in the first of two segments
C16_Witness ==
    /\ mFail = "tool"
    /\ mPc = "failed"
    /\ mk < Len(segments)
    /\ ~scriptFile.present

(* Claims about the manifest generateMovieBundle writes *)

\* the languages a beat of the manifest has to cover
ManifestLangs == {sourceLang} \cup Range(targetLangs)

\* C17: every beat of the manifest has an audioSources and a multiLinguals
\* entry for the source language and for every requested target language;
\* the source-language text is the beat's own text and the source-language
\* audio is the beat's own audio file, whatever the cache holds.
C17_BeatMapsComplete ==
    /\ \A i \in 1..Len(bundleBeats) :
         /\ DOMAIN bundleBeats[i].audioSources = ManifestLangs
         /\ DOMAIN bundleBeats[i].multiLinguals = ManifestLangs
         /\ bundleBeats[i].multiLinguals[sourceLang] = beats[i]
         /\ bundleBeats[i].audioSources[sourceLang] = <<i, "mp3">>
    /\ bPc = "done" => viewFile.beats = bundleBeats /\ Len(bundleBeats) = Len(beats)

\* a manifest with a cached and a fresh target language
C17_Witness ==
    /\ bPc = "done"
    /\ targetLangs = <<"ja", "fr">>
    /\ Len(viewFile.beats) = 1
    /\ HadText(1, "ja") # ""
    /\ <<1, "fr", "translate">> \in calls

C18_TotalDurationIsTheOption ==
    bPc = "done" => viewFile.totalDuration = optTotalDuration

\* a manifest whose totalDuration is not the sum of its beats' durations
C18_TotalDiffersFromSum ==
    /\ bPc = "done"
    /\ Len(viewFile.beats) = 1
    /\ viewFile.totalDuration = optTotalDuration
    /\ viewFile.totalDuration # SumDurations(viewFile.beats)

\* C19: in the written manifest the beats are in segment index order (the
\* beat at position k is input beat k), totalSegments is the number of
\* beats, and lang is the source language.
C19_ManifestOrderCountLang ==
    bPc = "done" =>
        /\ viewFile.lang = sourceLang
        /\ viewFile.totalSegments = Len(viewFile.beats)
        /\ Len(viewFile.beats) = Len(beats)
        /\ \A k \in 1..Len(viewFile.beats) :
             /\ viewFile.beats[k].videoSource = <<k, "mp4">>
             /\ viewFile.beats[k].thumbnail = <<k, "jpg">>
             /\ viewFile.beats[k].text = beats[k]
             /\ viewFile.beats[k].startTime = beatTimes[k].startTime

\* a manifest of two beats
C19_Witness ==
    /\ bPc = "done"
    /\ Len(viewFile.beats) = 2
    /\ viewFile.beats[1].videoSource = <<1, "mp4">>
    /\ viewFile.beats[2].videoSource = <<2, "mp4">>

\* C20: a video, audio or thumbnail file that was in the bundle directory
\* when generateMovieBundle was called keeps its content throughout the run.
C20_ExistingFilesKept ==
    \A name \in DOMAIN outDir0 :
        outDir0[name].kind # "absent" => outDir[name] = outDir0[name]

\* a run over a directory that already held the assets of beat 1, staged
\* copies of them being available
C20_Witness ==
    /\ bPc = "done"
    /\ Len(beats) >= 1
    /\ \A e \in AssetExts :
         /\ <<1, e>> \in scriptsDir
         /\ outDir0[<<1, e>>] = Earlier
         /\ outDir[<<1, e>>] = Earlier

(* Claims across the commands *)

\* conversion, bundling and upload, each started on its own
InitCommands == InitUpload \/ InitBundle \/ InitMovie

NextCommands == NextUpload \/ NextBundle \/ NextMovie

SpecCommands == InitCommands /\ [][NextCommands]_vars

\* C21: when the input file is missing or the credential is absent
\* (OPENAI_API_KEY for convertMovie and generateMovieBundle,
\* MULMO_MEDIA_API_KEY or mulmo_view.json for the upload) the operation fails
\* before any work: no tool has run, no request was sent, no file was written.
C21_FailFastOnMissingInput ==
    /\ mFail \in {"notFound", "apiKey"} =>
         /\ mPc = "failed"
         /\ toolCalls = {}
         /\ written = {}
         /\ scriptsDir = scriptsDir0
         /\ scriptFile = startScript
         /\ viewFile = startView
         /\ bPc = "idle"
         /\ calls = {}
    /\ abortReason = "apiKey" =>
         /\ bPc = "aborted"
         /\ calls = {}
         /\ bundleBeats = <<>>
         /\ outDir = outDir0
         /\ viewFile = viewFile0
    /\ upError \in {"apiKey", "manifest"} =>
         /\ upOutcome = "throw"
         /\ signPosts = 0
         /\ fileSt = <<>>
         /\ completePosts = <<>>

\* convertMovie rejected an existing video because the API key is missing
C21_Witness ==
    /\ mFail = "apiKey"
    /\ mPc = "failed"
    /\ videoExists
    /\ ~apiKeySet
    /\ toolCalls = {}

(* Claims about resolveLang *)

\* the language auto-detection finds in the texts, Undefined when it finds
\* none or a language that is not supported
Detected(texts) ==
    IF texts \in {"english", "japanese", "french", "german"}
    THEN FrancToLang(Franc(texts))
    ELSE Undefined

C23_ReuseOrConvertFirst ==
    /\ (~force /\ scriptExists0) => converterCalls = 0
    /\ ((force \/ ~scriptExists0) /\ runnerCalls # <<>>) => converterCalls = 1
    /\ (converterCalls > 0 /\ actPc # "converting" /\ ~scriptExists) =>
          /\ runnerCalls = <<>>
          /\ actPc = "exited"
          /\ actError \in {"notGenerated", "converter"}
    /\ Len(runnerCalls) <= 1

\* a forced conversion that leaves no script on disk
C23_Witness ==
    /\ actPc = "exited"
    /\ actError = "notGenerated"
    /\ force
    /\ converterCalls = 1
    /\ runnerCalls = <<>>

(* Claims about runs that share a bundle directory *)

\* the target (beat, language) pairs invocation r had finished
CompletedBy(r) ==
    { <<i, r.targetLangs[k]>> : i \in 1..Len(beats), k \in 1..Len(r.targetLangs) } \cap
    { p \in (1..Len(beats)) \X DiskLangs :
        /\ p[2] # sourceLang
        /\ \E k \in 1..Len(r.targetLangs) :
             /\ r.targetLangs[k] = p[2]
             /\ \/ p[1] < r.bi
                \/ p[1] = r.bi /\ k < r.lj }

\* C24: a rerun after a run that aborted makes no translation call and no
\* synthesis call for a (beat, language) the aborted run had finished.
C24_RerunSkipsCompletedPairs ==
    (runMode = "sequential" /\ activeRun = 2 /\ otherRun.pc = "aborted") =>
        \A p \in CompletedBy(otherRun) :
            /\ <<p[1], p[2], "translate">> \notin calls
            /\ <<p[1], p[2], "tts">> \notin calls

\* what the rerun does skip: the synthesis of every pair whose audio file the
\* aborted run wrote
C24_RerunSynthesizesNoFinishedAudio ==
    (runMode = "sequential" /\ activeRun = 2 /\ otherRun.pc = "aborted") =>
        \A p \in CompletedBy(otherRun) :
            outDir0[p].kind # "absent" => <<p[1], p[2], "tts">> \notin calls

\* mulmo_view.json pairs the audio file of (i, lang) with a text it was not
\* synthesized from
Mismatch(i, lang) ==
    /\ viewFile.present
    /\ i <= Len(viewFile.beats)
    /\ lang \in DOMAIN viewFile.beats[i].audioSources
    /\ lang \in DOMAIN viewFile.beats[i].multiLinguals
    /\ outDir[<<i, lang>>].kind = "tts"
    /\ outDir[<<i, lang>>].text # viewFile.beats[i].multiLinguals[lang]

\* both invocations called the speech service for (i, lang)
BothSynthesized(i, lang) ==
    /\ <<i, lang, "tts">> \in calls
    /\ <<i, lang, "tts">> \in otherRun.calls

\* C25: when the second invocation starts after the first has completed, no
\* audio file is synthesized by both and mulmo_view.json never pairs an audio
\* file with a text it was not synthesized from; interleaved invocations
\* reach that state (C25_Witness).
C25_SequentialRunsAgree ==
    (runMode = "sequential" /\ otherRun.pc = "done") =>
        \A i \in 1..Len(beats), lang \in DiskLangs :
            /\ ~BothSynthesized(i, lang)
            /\ ~Mismatch(i, lang)

\* two interleaved invocations have both returned, both synthesized the same
\* file, and the manifest written last holds another text than the file
C25_Witness ==
    /\ runMode = "interleaved"
    /\ bPc = "done"
    /\ otherRun.pc = "done"
    /\ \E i \in 1..Len(beats), lang \in DiskLangs :
         BothSynthesized(i, lang) /\ Mismatch(i, lang)

\* C27: after generateMovieBundle has returned, every audio file named in a
\* beat's audioSources exists in the bundle directory.
C27_NamedAudioExists ==
    (bPc = "done" /\ activeRun = 1 /\ otherRun.pc = "start" /\ recorded = {}) =>
        \A i \in 1..Len(viewFile.beats) :
            \A lang \in DOMAIN viewFile.beats[i].audioSources :
                Exists(viewFile.beats[i].audioSources[lang])

\* C28: every language key of a beat's audioSources and multiLinguals before
\* a rerun is there with the same value after it.
C28_RerunKeepsManifestEntries ==
    (runMode = "sequential" /\ activeRun = 2 /\ bPc = "done" /\ viewFile0.present) =>
        \A i \in 1..Len(viewFile0.beats) :
            /\ \A lang \in DOMAIN viewFile0.beats[i].audioSources :
                 /\ lang \in DOMAIN viewFile.beats[i].audioSources
                 /\ viewFile.beats[i].audioSources[lang] =
                       viewFile0.beats[i].audioSources[lang]
            /\ \A lang \in DOMAIN viewFile0.beats[i].multiLinguals :
                 /\ lang \in DOMAIN viewFile.beats[i].multiLinguals
                 /\ viewFile.beats[i].multiLinguals[lang] =
                       viewFile0.beats[i].multiLinguals[lang]

(* Claims about the order of the upload protocol *)

\* a PUT of file f has been issued
PutIssued(f) == fileSt[f].attempt >= 1

\* file f has not been started, or its upload has not returned
Unsettled(f) == fileSt[f].phase # "done"

\* C26: no PUT is issued before the signed-URL request has returned
\* successfully, the completion endpoint is never called while a file is
\* unstarted or in flight, and it is called at most once.
C26_ProtocolStepsOrdered ==
    /\ (\E f \in 1..Len(fileSt) : PutIssued(f)) =>
          /\ signPosts = 1
          /\ upPc \in {"uploading", "completing", "done"}
          /\ upError # "sign"
    /\ upPc \in {"start", "signing"} => fileSt = <<>>
    /\ completePosts # <<>> => \A f \in 1..Len(fileSt) : ~Unsettled(f)
    /\ Len(completePosts) <= 1

\* the completion endpoint has been called after two files were uploaded, one
\* of them at its second PUT
C26_Witness ==
    /\ completePosts = <<"c1">>
    /\ signs = 2
    /\ \E f \in 1..2 : fileSt[f].attempt = 2
    /\ \A f \in 1..2 : fileSt[f].phase = "done"

(* Termination and order independence of calculateSegments *)

\* one pass of the while loop that does not leave it
LoopPass == segPc = "loop" /\ segPc' = "loop"

Reorderings(sil) ==
    { q \in [1..Len(sil) -> Range(sil)] :
        \A x \in Range(sil) :
            Cardinality({ i \in 1..Len(sil) : q[i] = x }) =
            Cardinality({ i \in 1..Len(sil) : sil[i] = x }) }

\* two different midpoints of the window of a returned segment are equally
\* far from its target end
TiedWindow ==
    \E k \in 1..Len(segments) :
        LET cs == segments[k].startTime
            targetEnd == cs + maxDuration
        IN /\ targetEnd < totalDuration
           /\ \E m1, m2 \in WindowOf(cs) :
                 m1 # m2 /\ Abs(m1 - targetEnd) = Abs(m2 - targetEnd)

\* C30 as stated: every permutation of the silence intervals gives the
\* segments returned, ties included.
C30_OrderIndependent ==
    Returned =>
        \A q \in Reorderings(silences) :
            CalculateSegments(totalDuration, q, minDuration, maxDuration) = segments

\* C30 as amended: every permutation of the silence intervals gives the
\* segments returned unless two different midpoints of one window are equally
\* far from the target end; of those the one listed first is the cut.
C30_OrderIndependentWithoutTies ==
    (Returned /\ ~TiedWindow) =>
        \A q \in Reorderings(silences) :
            CalculateSegments(totalDuration, q, minDuration, maxDuration) = segments

\* two different silences listed latest first, both midpoints in the first
\* window at different distances, the cut at the midpoint listed last
C30_Witness ==
    /\ Returned
    /\ ~TiedWindow
    /\ Len(silences) = 2
    /\ silences[1].start > silences[2].start
    /\ {SplitPoints(silences)[1], SplitPoints(silences)[2]} \subseteq WindowOf(0)
    /\ maxDuration < totalDuration
    /\ segments[1].endTime = SplitPoints(silences)[2]

----------------------------------------------------------------------------
Init == InitSegments \/ InitUpload \/ InitBundle \/ InitMovie \/ InitLang \/ InitAction \/ InitBundleRuns

Next == NextSegments \/ NextUpload \/ NextBundle \/ NextMovie \/ NextLangCall \/ NextAction \/ BunSwitch \/ BunSaveAudio

Spec == Init /\ [][Next]_vars

====
